---------------------------- MODULE Spec2Model ----------------------------
(***************************************************************************)
(* A model of mysql-sync-pro: the row-diff engine of src/src/sync.py       *)
(* (sync_table, sync_mysql), the change detector of                        *)
(* src/utils/change_detector.py and the bidirectional controller of        *)
(* src/examples/full_real_time_sync.py.                                    *)
(*                                                                         *)
(* Conventions.  A string is a sequence of one-character strings, so that  *)
(* CONCAT_WS and OCTET_LENGTH are computed, not assumed.  SQL NULL is the  *)
(* one-element sequence NULL, whose element is not a character.  A table   *)
(* is a function from the keys of its present rows to their stored         *)
(* columns; the primary key is the single column "id" (a composite key is  *)
(* not modelled).  MD5 is modelled as an injective function (the hashed    *)
(* text itself).                                                           *)
(***************************************************************************)
EXTENDS Integers, Sequences, FiniteSets, TLC

(***************************************************************************)
(* Bounds of the model.                                                    *)
(***************************************************************************)
MaxKey == 3
MaxBatch == 2

(***************************************************************************)
(* The two databases and the tables of the schema catalog.                 *)
(***************************************************************************)
Sides == {"A", "B"}

Other(s) == IF s = "A" THEN "B" ELSE "A"

Tables == {"notes", "orders", "users"}

KeySpace == 1..MaxKey

NULL == <<"NULL">>

\* null_token = literal("␀")
null_token == <<"U2400">>

\* literal("|")
Separator == <<"|">>

(***************************************************************************)
(* Schema catalog: table -> columns, primary key, computed-column flags.   *)
(* "orders" and "users" declare the primary key id; "notes" declares none. *)
(* Column g is a generated column (its value is that of c1), except in the *)
(* "users" table of A, where it is a plain column that holds the same      *)
(* value: the two schemas disagree about it.                               *)
(***************************************************************************)
Columns == <<"id", "c1", "c2", "g">>

\* [col.name for col in table.primary_key.columns]
get_primary_key_column_names(t) == IF t = "notes" THEN <<>> ELSE <<"id">>

\* [col.name for col in table.columns if col.computed is not None]
get_computed_column_names(side, t) ==
    IF t = "users" /\ side = "A" THEN {} ELSE {"g"}

Range(seq) == {seq[i] : i \in DOMAIN seq}

\* columns that are neither primary key nor computed, in declaration order
get_updatable_column_names(side, t) ==
    LET pk_set == Range(get_primary_key_column_names(t))
        computed_set == get_computed_column_names(side, t)
        Keep(c) == c \notin pk_set /\ c \notin computed_set
    IN  SelectSeq(Columns, Keep)

(***************************************************************************)
(* Stored rows.  The three contents are chosen so that two of them differ  *)
(* in both data columns and still render to the same separator-joined      *)
(* text, and the third carries a NULL.                                     *)
(***************************************************************************)
RowAB_C == [c1 |-> <<"a", "|", "b">>, c2 |-> <<"c">>]

RowA_BC == [c1 |-> <<"a">>, c2 |-> <<"b", "|", "c">>]

RowA_Null == [c1 |-> <<"a">>, c2 |-> NULL]

\* the contents the rows of the source (A) and of the destination (B) start with
RowValuesOf(s) == IF s = "A" THEN {RowAB_C, RowA_Null} ELSE {RowA_BC, RowA_Null}

\* every content of a table over the key space
TableContents(keys, rows) == UNION {[S -> rows] : S \in SUBSET keys}

\* SELECT * of one stored row: all columns, the generated one included
FullRow(k, stored) ==
    [id |-> k, c1 |-> stored.c1, c2 |-> stored.c2, g |-> stored.c1]

(***************************************************************************)
(* Pure helpers of sync.py.                                                *)
(***************************************************************************)
Min(a, b) == IF a < b THEN a ELSE b

\* sorted(list(S)) for a set of integer keys
RECURSIVE SortedSeq(_)
SortedSeq(S) ==
    IF S = {} THEN <<>>
    ELSE LET m == CHOOSE x \in S : \A y \in S : x <= y
         IN  <<m>> \o SortedSeq(S \ {m})

\* chunked(seq, size): seq[i : i + size] for i in range(0, len(seq), size)
\* chunks that start every size keys and hold one key more
chunked_Overlapping(seq, size) ==
    LET n == (Len(seq) + size - 1) \div size
    IN  [j \in 1..n |->
           SubSeq(seq, (j - 1) * size + 1, Min(j * size + 1, Len(seq)))]

chunked(seq, size) ==
    LET n == (Len(seq) + size - 1) \div size
    IN  [j \in 1..n |-> SubSeq(seq, (j - 1) * size + 1, Min(j * size, Len(seq)))]

\* COALESCE(CAST(col AS CHAR), null_token)
Coalesce(v, token) == IF v = NULL THEN token ELSE v

\* CONCAT_WS(sep, parts...)
RECURSIVE ConcatWS(_, _)
ConcatWS(sep, parts) ==
    IF Len(parts) = 0 THEN <<>>
    ELSE IF Len(parts) = 1 THEN parts[1]
    ELSE parts[1] \o sep \o ConcatWS(sep, Tail(parts))

MD5(text) == text

\* build_row_fingerprint_expr evaluated on one stored row
build_row_fingerprint_expr(full, data_column_names) ==
    LET parts == [i \in 1..Len(data_column_names) |->
                    Coalesce(full[data_column_names[i]], null_token)]
    IN  IF Len(parts) = 0 THEN MD5(<<>>) ELSE MD5(ConcatWS(Separator, parts))

(***************************************************************************)
(* State.                                                                  *)
(*   db         the rows of every table of the two databases               *)
(*   schema     the tables each database has (what reflection returns)     *)
(*   binlog     per database: whether SHOW MASTER STATUS answers, and the  *)
(*              log position                                               *)
(*   stateFile  the content of each database's signature state file        *)
(*   fk         FOREIGN_KEY_CHECKS as seen by statements sent to a side    *)
(*   options    the arguments of the sync_mysql calls of this behaviour    *)
(*   pc         per runner (named by its source side): position in the     *)
(*              caller and in sync_mysql                                   *)
(*   task       per runner and table: the state of its sync_table task     *)
(*   oplog      per runner and table: the statements the current           *)
(*              sync_mysql call has sent to the destination, in order      *)
(*   run        per runner: bookkeeping of the caller (calls made, how the *)
(*              last one ended, the change decision of a loop tick)        *)
(*   lock       the holder of sync_lock, or "free"                         *)
(*   ext        per database: the number of writes by external writers     *)
(*   init       the databases and state files as they were initially       *)
(*   fault      the number of statements that have failed for a reason     *)
(*              outside the program (connection lost, lock wait timeout)   *)
(*   env        the environment of the process: its working directory,     *)
(*              the variable SYNC_MAX_WORKERS, what os.cpu_count() returns *)
(*   otherDir   the state files of the .state directory of the working     *)
(*              directory the process is not started in; stateFile is the  *)
(*              .state directory of the one it is started in               *)
(*   gui        the DatabaseSyncGUI object of examples/advanced_gui.py:    *)
(*              its three running flags and the worker threads it has      *)
(*              started, each with its mode and its position               *)
(***************************************************************************)
VARIABLES db, schema, binlog, stateFile, fk, options, pc, task, oplog, run,
          lock, ext, init, fault, env, otherDir, gui

vars == <<db, schema, binlog, stateFile, fk, options, pc, task, oplog, run,
          lock, ext, init, fault, env, otherDir, gui>>

Runners == Sides

\* the runner named r syncs its own side into the other one
Src(r) == r

\* a runner that writes to the side it reads from
Dst_Source(r) == r

Dst(r) == Other(r)

None == <<"None">>

IdleTask ==
    [pc |-> "idle", local_pks |-> {}, prod_pks |-> {}, to_insert |-> <<>>,
     to_delete |-> <<>>, overlap |-> <<>>, batches |-> <<>>,
     changed_pks |-> <<>>, raised |-> FALSE]

PendingTask == [IdleTask EXCEPT !.pc = "pending"]

\* a statement sent to the destination: its kind, the keys of its rows and
\* the columns of its payload
Stmt(op, keys, cols) == [op |-> op, keys |-> keys, cols |-> cols]

(***************************************************************************)
(* Text helpers of Python, computed on sequences of characters.            *)
(***************************************************************************)
Whitespace == {" ", "\t", "\n"}

\* str.strip()
RECURSIVE strip(_)
strip(text) ==
    IF text # <<>> /\ Head(text) \in Whitespace THEN strip(Tail(text))
    ELSE IF text # <<>> /\ text[Len(text)] \in Whitespace
    THEN strip(SubSeq(text, 1, Len(text) - 1))
    ELSE text

Digits == <<"0", "1", "2", "3", "4", "5", "6", "7", "8", "9">>

DigitValue(c) == (CHOOSE i \in DOMAIN Digits : Digits[i] = c) - 1

\* int(text): [ok, val]; ok is false where Python raises ValueError
int(text) ==
    LET t == strip(text)
        signed == t # <<>> /\ Head(t) \in {"+", "-"}
        ds == IF signed THEN Tail(t) ELSE t
        RECURSIVE Decimal(_)
        Decimal(d) ==
            IF d = <<>> THEN 0
            ELSE 10 * Decimal(SubSeq(d, 1, Len(d) - 1)) + DigitValue(d[Len(d)])
    IN  IF ds = <<>> \/ \E i \in DOMAIN ds : ds[i] \notin Range(Digits)
        THEN [ok |-> FALSE, val |-> 0]
        ELSE [ok |-> TRUE,
              val |-> IF signed /\ Head(t) = "-" THEN 0 - Decimal(ds)
                      ELSE Decimal(ds)]

\* the order of characters: space and digits before the letters
CodePoint(c) ==
    LET Letters ==
            <<"a", "b", "c", "d", "e", "f", "g", "h", "i", "j", "k", "l", "m",
              "n", "o", "p", "q", "r", "s", "t", "u", "v", "w", "x", "y", "z">>
    IN  IF c \in Whitespace THEN 32
        ELSE IF c \in Range(Digits) THEN 48 + DigitValue(c)
        ELSE 96 + (CHOOSE i \in DOMAIN Letters : Letters[i] = c)

\* a < b for two Python strings
RECURSIVE StrLess(_, _)
StrLess(a, b) ==
    IF b = <<>> THEN FALSE
    ELSE IF a = <<>> THEN TRUE
    ELSE IF Head(a) # Head(b) THEN CodePoint(Head(a)) < CodePoint(Head(b))
    ELSE StrLess(Tail(a), Tail(b))

\* the spelling of a table name
Chars(t) ==
    CASE t = "notes" -> <<"n", "o", "t", "e", "s">>
      [] t = "orders" -> <<"o", "r", "d", "e", "r", "s">>
      [] t = "users" -> <<"u", "s", "e", "r", "s">>

\* sorted(S) for a set of table names
RECURSIVE sorted(_)
sorted(S) ==
    IF S = {} THEN <<>>
    ELSE LET m == CHOOSE x \in S :
                     \A y \in S : x = y \/ StrLess(Chars(x), Chars(y))
         IN  <<m>> \o sorted(S \ {m})

\* the orders in which a dict with the keys S may list them
Orderings(S) == {f \in [1..Cardinality(S) -> S] : Range(f) = S}

(***************************************************************************)
(* The size of the worker pool (lines 563-571).  An optional integer is a  *)
(* record [some, val], and so is an optional list; an optional string is   *)
(* None or the string.                                                     *)
(***************************************************************************)
NoInt == [some |-> FALSE, val |-> 0]

Some(n) == [some |-> TRUE, val |-> n]

\* a list argument left at None
Absent == [some |-> FALSE, val |-> <<>>]

Max(a, b) == IF a > b THEN a ELSE b

\* max_workers as passed to ThreadPoolExecutor
PoolSize(max_workers, e) ==
    LET max_workers_env == IF max_workers.some THEN None ELSE e.SYNC_MAX_WORKERS
        parsed == IF max_workers_env # None /\ max_workers_env # <<>>
                  THEN int(max_workers_env) ELSE [ok |-> FALSE, val |-> 0]
        from_env == IF parsed.ok THEN Some(parsed.val) ELSE NoInt
        cpu == IF e.cpu_count.some /\ e.cpu_count.val # 0
               THEN e.cpu_count.val ELSE 2
    IN  IF max_workers.some THEN max_workers.val
        ELSE IF ~from_env.some \/ from_env.val = 0 \/ from_env.val <= 0
        THEN Min(8, Max(2, cpu * 2))
        ELSE from_env.val

\* the tasks of a call that a worker thread is running
Running(r) ==
    Cardinality({t \in Tables :
                   task[r][t].pc \notin {"idle", "pending", "done", "failed"}})

\* ThreadPoolExecutor starts a submitted task when fewer than max_workers
\* threads are busy
WorkerFree(r) == Running(r) < PoolSize(options.max_workers, env)

(***************************************************************************)
(* The statements of the batch mutation applier, as functions of the table *)
(* they read or write.  A result is [ok, tbl, sent]: whether the statement *)
(* succeeded, the table after it, and whether a statement was sent at all. *)
(***************************************************************************)
Restrict(f, S) == [x \in (DOMAIN f) \cap S |-> f[x]]

Without(f, S) == [x \in (DOMAIN f) \ S |-> f[x]]

Get(h, k) == IF k \in DOMAIN h THEN h[k] ELSE None

\* the stored columns of a written payload; a column it lacks gets its default
Stored(payload) ==
    [c1 |-> IF "c1" \in DOMAIN payload THEN payload["c1"] ELSE NULL,
     c2 |-> IF "c2" \in DOMAIN payload THEN payload["c2"] ELSE NULL]

PayloadKeys(rows) == {p["id"] : p \in rows}

PayloadColumns(rows) == UNION {DOMAIN p : p \in rows}

\* the server refuses a value given for a generated column
Refused(rows, side, t) ==
    \E p \in rows : (DOMAIN p) \cap get_computed_column_names(side, t) # {}

fetch_pk_values(tbl, pk_column_names) ==
    IF pk_column_names = <<>> THEN {} ELSE DOMAIN tbl

fetch_rows_by_pks(tbl, pk_values) ==
    IF pk_values = <<>> THEN {}
    ELSE {FullRow(k, tbl[k]) : k \in Range(pk_values) \cap DOMAIN tbl}

fetch_hashes_for_pks(tbl, data_column_names, pk_values) ==
    IF pk_values = <<>> THEN <<>>
    ELSE [k \in Range(pk_values) \cap DOMAIN tbl |->
            build_row_fingerprint_expr(FullRow(k, tbl[k]), data_column_names)]

\* allowed_cols of insert_rows: the destination's columns that are not computed
AllowedCols(side, t) == Range(Columns) \ get_computed_column_names(side, t)

\* a plain INSERT whatever the flag: a duplicate key fails the batch
insert_rows_NeverIgnores(tbl, rows, use_insert_ignore, side, t) ==
    LET filtered_rows == {Restrict(row, AllowedCols(side, t)) : row \in rows}
        dup == PayloadKeys(filtered_rows) \cap DOMAIN tbl
        added == [k \in PayloadKeys(filtered_rows) |->
                    Stored(CHOOSE p \in filtered_rows : p["id"] = k)]
    IN  IF rows = {} THEN [ok |-> TRUE, tbl |-> tbl, sent |-> {}]
        ELSE IF Refused(filtered_rows, side, t) \/ dup # {}
             THEN [ok |-> FALSE, tbl |-> tbl, sent |-> filtered_rows]
             ELSE [ok |-> TRUE, tbl |-> added @@ tbl, sent |-> filtered_rows]

\* an insert without the guard for an empty list: the statement without rows
\* is sent and refused
insert_rows_NoEmptyGuard(tbl, rows, use_insert_ignore, side, t) ==
    LET filtered_rows == {Restrict(row, AllowedCols(side, t)) : row \in rows}
        dup == PayloadKeys(filtered_rows) \cap DOMAIN tbl
        fresh == {p \in filtered_rows : p["id"] \notin DOMAIN tbl}
        added == [k \in PayloadKeys(fresh) |->
                    Stored(CHOOSE p \in fresh : p["id"] = k)]
    IN  IF rows = {} \/ Refused(filtered_rows, side, t)
           \/ (dup # {} /\ ~use_insert_ignore)
        THEN [ok |-> FALSE, tbl |-> tbl, sent |-> filtered_rows]
        ELSE [ok |-> TRUE, tbl |-> added @@ tbl, sent |-> filtered_rows]

\* INSERT [IGNORE] of the filtered rows, in one transaction
insert_rows(tbl, rows, use_insert_ignore, side, t) ==
    LET filtered_rows == {Restrict(row, AllowedCols(side, t)) : row \in rows}
        dup == PayloadKeys(filtered_rows) \cap DOMAIN tbl
        fresh == {p \in filtered_rows : p["id"] \notin DOMAIN tbl}
        added == [k \in PayloadKeys(fresh) |->
                    Stored(CHOOSE p \in fresh : p["id"] = k)]
    IN  IF rows = {} THEN [ok |-> TRUE, tbl |-> tbl, sent |-> {}]
        ELSE IF Refused(filtered_rows, side, t)
                \/ (dup # {} /\ ~use_insert_ignore)
             THEN [ok |-> FALSE, tbl |-> tbl, sent |-> filtered_rows]
             ELSE [ok |-> TRUE, tbl |-> added @@ tbl, sent |-> filtered_rows]

\* an upsert that leaves a row that exists as it is (no update on conflict)
upsert_rows_NoUpdate(tbl, rows, update_column_names, side, t) ==
    LET written == [k \in PayloadKeys(rows) \ DOMAIN tbl |->
                      Stored(CHOOSE q \in rows : q["id"] = k)]
    IN  [ok |-> TRUE, tbl |-> written @@ tbl, sent |-> rows]

\* INSERT ... ON DUPLICATE KEY UPDATE update_column_names
upsert_rows(tbl, rows, update_column_names, side, t) ==
    LET new(k, p, c) ==
            IF c \in Range(update_column_names) /\ c \in DOMAIN p
            THEN p[c] ELSE tbl[k][c]
        upd(k, p) == [c1 |-> new(k, p, "c1"), c2 |-> new(k, p, "c2")]
        written == [k \in PayloadKeys(rows) |->
                      LET p == CHOOSE q \in rows : q["id"] = k
                      IN  IF k \in DOMAIN tbl THEN upd(k, p) ELSE Stored(p)]
    IN  IF rows = {} THEN [ok |-> TRUE, tbl |-> tbl, sent |-> {}]
        ELSE IF Refused(rows, side, t)
             THEN [ok |-> FALSE, tbl |-> tbl, sent |-> rows]
             ELSE [ok |-> TRUE, tbl |-> written @@ tbl, sent |-> rows]

\* DELETE ... WHERE pk IN (batch)
delete_rows_by_pks(tbl, pk_values) ==
    IF pk_values = <<>> THEN [ok |-> TRUE, tbl |-> tbl, sent |-> {}]
    ELSE [ok |-> TRUE, tbl |-> Without(tbl, Range(pk_values)),
          sent |-> Range(pk_values)]

(***************************************************************************)
(* sync_table, one step per statement group.                               *)
(***************************************************************************)
\* a plan whose delete set is taken from the wrong side
DiffKeys_DeleteFromLocal(local_pks, prod_pks) ==
    [to_insert |-> SortedSeq(local_pks \ prod_pks),
     to_delete |-> SortedSeq(local_pks \ prod_pks),
     overlap |-> SortedSeq(local_pks \cap prod_pks)]

\* the plan of sync_table: to_insert, to_delete, overlap, each sorted
DiffKeys(local_pks, prod_pks) ==
    [to_insert |-> SortedSeq(local_pks \ prod_pks),
     to_delete |-> SortedSeq(prod_pks \ local_pks),
     overlap |-> SortedSeq(local_pks \cap prod_pks)]

\* every overlap key of the batch taken as changed, whatever its hashes
ChangedPks_All(batch, local_hashes, prod_hashes) == batch

\* changed_pks of one overlap batch
ChangedPks(batch, local_hashes, prod_hashes) ==
    LET Differs(pk) == Get(local_hashes, pk) # Get(prod_hashes, pk)
    IN  SelectSeq(batch, Differs)

\* deletes placed before the updates
PhaseOrder_DeleteEarly == <<"insert", "delete", "update">>

\* the order of the three apply phases in the body of the try block
PhaseOrder == <<"insert", "update", "delete">>

PhasePc(ph) == IF ph = "update" THEN "hash" ELSE ph

\* an insert phase that also loops over the keys both sides have
PhaseKeys_InsertOverlap(tk, ph, r, t) ==
    CASE ph = "insert" -> tk.to_insert \o tk.overlap
      [] ph = "delete" -> tk.to_delete
      [] OTHER -> IF get_updatable_column_names(Src(r), t) = <<>>
                  THEN <<>> ELSE tk.overlap

\* the keys a phase loops over; the loop is not entered when they are empty
PhaseKeys(tk, ph, r, t) ==
    CASE ph = "insert" -> tk.to_insert
      [] ph = "delete" -> tk.to_delete
      [] OTHER -> IF get_updatable_column_names(Src(r), t) = <<>>
                  THEN <<>> ELSE tk.overlap

\* a cleanup that runs on the success path only
Finally_NotOnError(tk, raised) ==
    IF options.disable_fk_checks /\ ~raised
    THEN [tk EXCEPT !.pc = "fk_on", !.batches = <<>>, !.raised = raised]
    ELSE [tk EXCEPT !.pc = IF raised THEN "failed" ELSE "done",
                    !.batches = <<>>, !.raised = raised]

\* the finally block: re-enable the checks if they were disabled
Finally(tk, raised) ==
    IF options.disable_fk_checks
    THEN [tk EXCEPT !.pc = "fk_on", !.batches = <<>>, !.raised = raised]
    ELSE [tk EXCEPT !.pc = IF raised THEN "failed" ELSE "done",
                    !.batches = <<>>, !.raised = raised]

\* enter the i-th phase, passing over the phases that have nothing to do
RECURSIVE EnterPhase(_, _, _, _)
EnterPhase(tk, i, r, t) ==
    IF i > Len(PhaseOrder) THEN Finally(tk, FALSE)
    ELSE LET keys == PhaseKeys(tk, PhaseOrder[i], r, t)
         IN  IF keys = <<>> THEN EnterPhase(tk, i + 1, r, t)
             ELSE [tk EXCEPT !.pc = PhasePc(PhaseOrder[i]),
                             !.batches = chunked(keys, options.batch_size)]

PhaseIndex(ph) == CHOOSE i \in 1..Len(PhaseOrder) : PhaseOrder[i] = ph

\* after a batch: the next batch of the phase, or the next phase
AfterBatch(tk, ph, r, t) ==
    IF Len(tk.batches) > 1
    THEN [tk EXCEPT !.pc = PhasePc(ph), !.batches = Tail(tk.batches),
                    !.changed_pks = <<>>]
    ELSE EnterPhase([tk EXCEPT !.changed_pks = <<>>], PhaseIndex(ph) + 1, r, t)

\* a write that changed rows moves the log position of a server with a binlog
Logged(side, changed) ==
    IF binlog[side].on /\ changed
    THEN [binlog EXCEPT ![side].pos = @ + 1] ELSE binlog

\* no table is skipped
SkipsTable_Never(pk_column_names) == FALSE

\* if not pk_column_names: warn and return
SkipsTable(pk_column_names) == pk_column_names = <<>>

(*  lines 378-403: skip without primary key, scan, plan, dry run  *)
TaskScan(r, t) ==
    /\ task[r][t].pc = "pending"
    /\ WorkerFree(r)
    /\ LET pk_column_names == get_primary_key_column_names(t)
           local_pks == fetch_pk_values(db[Src(r)][t], pk_column_names)
           prod_pks == fetch_pk_values(db[Dst(r)][t], pk_column_names)
           plan == DiffKeys(local_pks, prod_pks)
           tk == [task[r][t] EXCEPT !.local_pks = local_pks,
                                    !.prod_pks = prod_pks,
                                    !.to_insert = plan.to_insert,
                                    !.to_delete = plan.to_delete,
                                    !.overlap = plan.overlap]
       IN  task' = [task EXCEPT ![r][t] =
               IF SkipsTable(pk_column_names) THEN [@ EXCEPT !.pc = "done"]
               ELSE IF options.dry_run THEN [tk EXCEPT !.pc = "done"]
               ELSE IF options.disable_fk_checks THEN [tk EXCEPT !.pc = "fk_off"]
               ELSE EnterPhase(tk, 1, r, t)]
    /\ UNCHANGED <<db, schema, binlog, stateFile, fk, options, pc, oplog, run,
                   lock, ext, init, fault,
                   env, gui, otherDir>>

(*  lines 405-406: set_foreign_key_checks(prod_engine, enabled=False)  *)
TaskFkOff(r, t) ==
    /\ task[r][t].pc = "fk_off"
    /\ fk' = [fk EXCEPT ![Dst(r)] = FALSE]
    /\ oplog' = [oplog EXCEPT ![r][t] = Append(@, Stmt("fk_off", {}, {}))]
    /\ task' = [task EXCEPT ![r][t] = EnterPhase(@, 1, r, t)]
    /\ UNCHANGED <<db, schema, binlog, stateFile, options, pc, run, lock, ext,
                   init, fault,
                   env, gui, otherDir>>

(*  lines 413-421: one insert batch  *)
TaskInsert(r, t) ==
    /\ task[r][t].pc = "insert"
    /\ LET batch == Head(task[r][t].batches)
           rows == fetch_rows_by_pks(db[Src(r)][t], batch)
           res == insert_rows(db[Dst(r)][t], rows, options.use_insert_ignore,
                              Dst(r), t)
       IN  /\ db' = [db EXCEPT ![Dst(r)][t] = res.tbl]
           /\ binlog' = Logged(Dst(r), res.tbl # db[Dst(r)][t])
           /\ oplog' = [oplog EXCEPT ![r][t] =
                  IF res.sent = {} THEN @
                  ELSE Append(@, Stmt("insert", PayloadKeys(res.sent),
                                   PayloadColumns(res.sent)))]
           /\ task' = [task EXCEPT ![r][t] =
                  IF res.ok THEN AfterBatch(@, "insert", r, t)
                  ELSE Finally(@, TRUE)]
    /\ UNCHANGED <<schema, stateFile, fk, options, pc, run, lock, ext, init, fault,
                   env, gui, otherDir>>

(*  lines 428-439: the two hash fetches of one overlap batch, changed_pks  *)
TaskHash(r, t) ==
    /\ task[r][t].pc = "hash"
    /\ LET batch == Head(task[r][t].batches)
           data_cols == get_updatable_column_names(Src(r), t)
           local_hashes == fetch_hashes_for_pks(db[Src(r)][t], data_cols, batch)
           prod_hashes == fetch_hashes_for_pks(db[Dst(r)][t], data_cols, batch)
           changed_pks == ChangedPks(batch, local_hashes, prod_hashes)
       IN  /\ task' = [task EXCEPT ![r][t] =
                  IF changed_pks = <<>> THEN AfterBatch(@, "update", r, t)
                  ELSE [@ EXCEPT !.pc = "upsert", !.changed_pks = changed_pks]]
           /\ oplog' = [oplog EXCEPT ![r][t] =
                  Append(@, Stmt("hash", Range(batch), {}))]
    /\ UNCHANGED <<db, schema, binlog, stateFile, fk, options, pc, run, lock,
                   ext, init, fault,
                   env, gui, otherDir>>

(*  lines 440-456: fetch the changed rows, strip computed columns, upsert  *)
TaskUpsert(r, t) ==
    /\ task[r][t].pc = "upsert"
    /\ LET changed_rows == fetch_rows_by_pks(db[Src(r)][t],
                                             task[r][t].changed_pks)
           computed_cols == get_computed_column_names(Src(r), t)
           sanitized_rows == {Without(row, computed_cols) : row \in changed_rows}
           res == upsert_rows(db[Dst(r)][t], sanitized_rows,
                              get_updatable_column_names(Src(r), t), Dst(r), t)
       IN  /\ db' = [db EXCEPT ![Dst(r)][t] = res.tbl]
           /\ binlog' = Logged(Dst(r), res.tbl # db[Dst(r)][t])
           /\ oplog' = [oplog EXCEPT ![r][t] =
                  IF res.sent = {} THEN @
                  ELSE Append(@, Stmt("upsert", PayloadKeys(res.sent),
                                   PayloadColumns(res.sent)))]
           /\ task' = [task EXCEPT ![r][t] =
                  IF res.ok THEN AfterBatch(@, "update", r, t)
                  ELSE Finally(@, TRUE)]
    /\ UNCHANGED <<schema, stateFile, fk, options, pc, run, lock, ext, init, fault,
                   env, gui, otherDir>>

(*  lines 461-465: one delete batch  *)
TaskDelete(r, t) ==
    /\ task[r][t].pc = "delete"
    /\ LET batch == Head(task[r][t].batches)
           res == delete_rows_by_pks(db[Dst(r)][t], batch)
       IN  /\ db' = [db EXCEPT ![Dst(r)][t] = res.tbl]
           /\ binlog' = Logged(Dst(r), res.tbl # db[Dst(r)][t])
           /\ oplog' = [oplog EXCEPT ![r][t] =
                  IF res.sent = {} THEN @
                  ELSE Append(@, Stmt("delete", res.sent, {}))]
           /\ task' = [task EXCEPT ![r][t] = AfterBatch(@, "delete", r, t)]
    /\ UNCHANGED <<schema, stateFile, fk, options, pc, run, lock, ext, init, fault,
                   env, gui, otherDir>>

(*  lines 474-476: finally, set_foreign_key_checks(prod_engine, enabled=True)  *)
TaskFkOn(r, t) ==
    /\ task[r][t].pc = "fk_on"
    /\ fk' = [fk EXCEPT ![Dst(r)] = TRUE]
    /\ oplog' = [oplog EXCEPT ![r][t] = Append(@, Stmt("fk_on", {}, {}))]
    /\ task' = [task EXCEPT ![r][t].pc =
           IF task[r][t].raised THEN "failed" ELSE "done"]
    /\ UNCHANGED <<db, schema, binlog, stateFile, options, pc, run, lock, ext,
                   init, fault,
                   env, gui, otherDir>>

\* one step of the sync_table task of table t
TaskStep(r, t) ==
    \/ TaskScan(r, t)
    \/ TaskFkOff(r, t)
    \/ TaskInsert(r, t)
    \/ TaskHash(r, t)
    \/ TaskUpsert(r, t)
    \/ TaskDelete(r, t)
    \/ TaskFkOn(r, t)

(***************************************************************************)
(* Initial states.                                                         *)
(***************************************************************************)
EmptySig == [kind |-> "", val |-> <<>>]

OrdersContents(s) == TableContents(KeySpace, RowValuesOf(s))

\* the two URLs: both of the MySQL dialect, on the MySQL port
ValidConfig ==
    [is_mysql |-> [s \in Sides |-> TRUE], port |-> [s \in Sides |-> 3306],
     allow_mysql_port_5432 |-> FALSE]

\* the arguments of sync_mysql; include, exclude and max_workers are left at
\* their default, None
SyncOptions(dry_run, batch_size, disable_fk_checks, use_insert_ignore, change_detector, config) ==
    [dry_run |-> dry_run, batch_size |-> batch_size,
     disable_fk_checks |-> disable_fk_checks,
     use_insert_ignore |-> use_insert_ignore,
     change_detector |-> change_detector, config |-> config,
     include |-> Absent, exclude |-> Absent, max_workers |-> NoInt]

\* the working directory the process is started in
StartDir == "/srv/sync"

\* SYNC_MAX_WORKERS is not set; one CPU
DefaultEnv ==
    [cwd |-> StartDir, SYNC_MAX_WORKERS |-> None, cpu_count |-> Some(1)]

\* advanced_gui.py lines 51-54: no thread, the three flags False
DatabaseSyncGUI ==
    [sync_running |-> FALSE, auto_sync_running |-> FALSE,
     bi_directional_running |-> FALSE, threads |-> <<>>]

\* what every specification starts from, given the databases and the options
InitWith(d, sch, bl, files, opts) ==
    /\ db = d
    /\ schema = sch
    /\ binlog = bl
    /\ stateFile = files
    /\ fk = [s \in Sides |-> TRUE]
    /\ options = opts
    /\ oplog = [r \in Runners |-> [t \in Tables |-> <<>>]]
    /\ run = [r \in Runners |->
                 [calls |-> 0, results |-> <<>>, changed |-> FALSE]]
    /\ lock = "free"
    /\ ext = [s \in Sides |-> 0]
    /\ init = [db |-> d, stateFile |-> files]
    /\ fault = 0
    /\ otherDir = [s \in Sides |-> EmptySig]
    /\ gui = DatabaseSyncGUI

(***************************************************************************)
(* Spec: the sync_table tasks of one dispatch, as sync_mysql starts them   *)
(* (lines 574-585), for every content of the two sides and every option.   *)
(***************************************************************************)
Init ==
    /\ env = DefaultEnv
    /\ \E lo \in OrdersContents("A"), po \in OrdersContents("B"),
          np \in {<<(1 :> RowA_Null), <<>>>>, <<<<>>, (1 :> RowA_Null)>>},
          dry \in BOOLEAN, bs \in 1..MaxBatch, fkf \in BOOLEAN,
          ign \in {TRUE} :
          InitWith([s \in Sides |->
                      IF s = "A"
                      THEN [orders |-> lo, notes |-> np[1], users |-> <<>>]
                      ELSE [orders |-> po, notes |-> np[2], users |-> <<>>]],
                   [s \in Sides |-> {"notes", "orders"}],
                   [s \in Sides |-> [on |-> FALSE, pos |-> 0]],
                   [s \in Sides |-> EmptySig],
                   SyncOptions(dry, bs, fkf, ign, TRUE, ValidConfig))
    /\ pc = [r \in Runners |-> IF r = "A" THEN "tasks" ELSE "idle"]
    /\ task = [r \in Runners |->
                [t \in Tables |->
                   IF r = "A" /\ t \in schema[r] THEN PendingTask ELSE IdleTask]]

Next == \E t \in Tables : TaskStep("A", t)

Spec == Init /\ [][Next]_vars

(***************************************************************************)
(* Properties of sync_table, checked under Spec.                           *)
(***************************************************************************)
HasPK(t) == get_primary_key_column_names(t) # <<>>

Scanned(r, t) == task[r][t].pc \notin {"idle", "pending"}

Finished(r, t) == task[r][t].pc = "done"

\* the keys of the statements of one kind sent so far for a table
KeysOf(r, t, op) ==
    UNION {oplog[r][t][i].keys :
             i \in {j \in DOMAIN oplog[r][t] : oplog[r][t][j].op = op}}

OpsOf(r, t) == {oplog[r][t][i].op : i \in DOMAIN oplog[r][t]}

\* the fingerprint sync_table compares, of the row a table holds at key k
Fingerprint(side, t, tbl, k) ==
    build_row_fingerprint_expr(FullRow(k, tbl[k]),
                               get_updatable_column_names(side, t))

\* equal values in every non-key, non-computed column
SameData(side, t, row1, row2) ==
    \A c \in Range(get_updatable_column_names(side, t)) : row1[c] = row2[c]

\* C1: once sync_table has scanned the key sets L (source) and R
\* (destination) of a table, its plan is to_insert = L - R, to_delete = R - L,
\* overlap = L intersect R; to_insert and to_delete are disjoint, to_insert
\* with overlap is L and to_delete with overlap is R.
C1_PlanIsSetDifference ==
    \A r \in Runners, t \in Tables :
        (Scanned(r, t) /\ HasPK(t)) =>
            LET tk == task[r][t]
                L == DOMAIN init.db[Src(r)][t]
                R == DOMAIN init.db[Dst(r)][t]
                ins == Range(tk.to_insert)
                del == Range(tk.to_delete)
                ovl == Range(tk.overlap)
            IN  /\ tk.local_pks = L /\ tk.prod_pks = R
                /\ ins = L \ R /\ del = R \ L /\ ovl = L \cap R
                /\ ins \cap del = {}
                /\ ins \cup ovl = L /\ del \cup ovl = R

\* a plan with rows to insert, rows to delete and rows on both sides
C1_Witness ==
    \E t \in Tables :
        /\ Scanned("A", t)
        /\ task["A"][t].to_insert # <<>>
        /\ task["A"][t].to_delete # <<>>
        /\ task["A"][t].overlap # <<>>

C3_UpsertIffFingerprintsDiffer ==
    \A r \in Runners, t \in Tables :
        LET src0 == init.db[Src(r)][t]
            dst0 == init.db[Dst(r)][t]
            ovl == (DOMAIN src0) \cap (DOMAIN dst0)
            differs(k) == Fingerprint(Src(r), t, src0, k)
                            # Fingerprint(Src(r), t, dst0, k)
            upserted == KeysOf(r, t, "upsert")
            compared == KeysOf(r, t, "hash")
            pending == IF task[r][t].pc = "upsert"
                       THEN Range(Head(task[r][t].batches)) ELSE {}
        IN  HasPK(t) =>
              /\ upserted \subseteq {k \in ovl : differs(k)}
              /\ \A k \in compared \ pending : differs(k) => k \in upserted
              /\ \A k \in ovl :
                    SameData(Src(r), t, src0[k], dst0[k]) => k \notin upserted
              /\ \A k \in upserted :
                    SameData(Src(r), t, db[Dst(r)][t][k], db[Src(r)][t][k])
              /\ Finished(r, t) /\ ~options.dry_run => compared = ovl

\* two overlap rows, one with the same values on both sides and left alone,
\* one with another fingerprint and upserted
C3_Witness ==
    /\ Finished("A", "orders")
    /\ \E k1, k2 \in (DOMAIN init.db["A"]["orders"])
                        \cap (DOMAIN init.db["B"]["orders"]) :
          /\ init.db["A"]["orders"][k1] = init.db["B"]["orders"][k1]
          /\ KeysOf("A", "orders", "upsert") = {k2}

\* C9: a table without primary key is skipped as a whole: no statement is
\* sent for it (no insert, upsert, delete, hash fetch or foreign-key toggle),
\* no plan is made, and its destination rows stay as they were.
C9_NoPrimaryKeySkipped ==
    \A r \in Runners, t \in Tables :
        ~HasPK(t) =>
            /\ oplog[r][t] = <<>>
            /\ task[r][t].pc \in {"idle", "pending", "done"}
            /\ db[Dst(r)][t] = init.db[Dst(r)][t]

\* the task of the keyless table has ended in a run that writes and toggles
\* the checks, with different rows on the two sides
C9_Witness ==
    /\ Finished("A", "notes")
    /\ ~options.dry_run /\ options.disable_fk_checks
    /\ db["A"]["notes"] # db["B"]["notes"]

\* C10: in the statements of one table, no insert batch comes after a hash
\* comparison, an upsert or a delete, and no hash comparison or upsert comes
\* after a delete.
C10_InsertUpdateDelete ==
    \A r \in Runners, t \in Tables :
        \A i, j \in DOMAIN oplog[r][t] :
            i < j =>
                LET first == oplog[r][t][i].op
                    later == oplog[r][t][j].op
                IN  /\ ~(later = "insert" /\ first \in {"hash", "upsert", "delete"})
                    /\ ~(later \in {"hash", "upsert"} /\ first = "delete")

\* a finished run that began with an insert, then upserted, then deleted
C10_Witness ==
    /\ Finished("A", "orders")
    /\ \E i, j \in DOMAIN oplog["A"]["orders"] :
          /\ i < j
          /\ oplog["A"]["orders"][i].op = "upsert"
          /\ oplog["A"]["orders"][j].op = "delete"
          /\ oplog["A"]["orders"][1].op = "insert"

\* C26: every key sent in an insert is a key of to_insert; every key sent in
\* an upsert is an overlap key whose fingerprints differed; so no to_insert
\* key is upserted, no overlap key is inserted, and no to_delete key is
\* inserted or upserted.
C26_WritesFollowThePlan ==
    \A r \in Runners, t \in Tables :
        LET tk == task[r][t]
            src0 == init.db[Src(r)][t]
            dst0 == init.db[Dst(r)][t]
            inserted == KeysOf(r, t, "insert")
            upserted == KeysOf(r, t, "upsert")
        IN  /\ inserted \subseteq Range(tk.to_insert)
            /\ upserted \subseteq
                  {k \in Range(tk.overlap) :
                     Fingerprint(Src(r), t, src0, k) # Fingerprint(Src(r), t, dst0, k)}
            /\ upserted \cap Range(tk.to_insert) = {}
            /\ inserted \cap Range(tk.overlap) = {}
            /\ (inserted \cup upserted) \cap Range(tk.to_delete) = {}

\* a finished run whose plan had keys of all three kinds and that sent an
\* insert and an upsert
C26_Witness ==
    /\ Finished("A", "orders")
    /\ KeysOf("A", "orders", "insert") # {}
    /\ KeysOf("A", "orders", "upsert") # {}
    /\ task["A"]["orders"].to_delete # <<>>
    /\ KeysOf("A", "orders", "delete") = Range(task["A"]["orders"].to_delete)

\* C31: for every batch size from 1 on, the insert, update and delete phases
\* each process their sorted key list in consecutive chunks: the chunks of a
\* planned list are non-empty, hold at most batch_size keys and give the
\* list back when concatenated; the batches a task still has to send are the
\* last chunks of the list of its phase; and the statements a finished task
\* has sent for a phase (the hash fetches, for the update phase) carry, in
\* order, chunks of at most batch_size ascending keys, every planned key in
\* exactly one of them.
C31_PhasesRunInChunks ==
    \A r \in Runners, t \in Tables :
        LET tk == task[r][t]
            size == options.batch_size
            RECURSIVE Flatten(_)
            Flatten(bs) == IF bs = <<>> THEN <<>> ELSE Head(bs) \o Flatten(Tail(bs))
            Chunks(keys) == chunked(keys, size)
            Sent(op) == SelectSeq(oplog[r][t], LAMBDA st : st.op = op)
            InChunks(keys, op) ==
                LET sent == Sent(op)
                IN  /\ \A i \in DOMAIN sent :
                          /\ sent[i].keys # {}
                          /\ Cardinality(sent[i].keys) <= size
                          /\ \A j \in DOMAIN sent :
                                i < j => \A a \in sent[i].keys, b \in sent[j].keys :
                                             a < b
                    /\ UNION {sent[i].keys : i \in DOMAIN sent} = Range(keys)
                    /\ Len(sent) = Len(Chunks(keys))
                    /\ \A i \in DOMAIN sent : sent[i].keys = Range(Chunks(keys)[i])
        IN  /\ \A keys \in {tk.to_insert, tk.overlap, tk.to_delete} :
                  /\ Flatten(Chunks(keys)) = keys
                  /\ \A i \in DOMAIN Chunks(keys) :
                        /\ Chunks(keys)[i] # <<>>
                        /\ Len(Chunks(keys)[i]) <= size
                  /\ \A i, j \in DOMAIN keys : i < j => keys[i] < keys[j]
            /\ tk.pc \in {"insert", "hash", "upsert", "delete"} =>
                  LET ph == IF tk.pc \in {"hash", "upsert"} THEN "update" ELSE tk.pc
                      all == Chunks(PhaseKeys(tk, ph, r, t))
                  IN  /\ tk.batches # <<>>
                      /\ Len(tk.batches) <= Len(all)
                      /\ tk.batches = SubSeq(all, Len(all) - Len(tk.batches) + 1,
                                             Len(all))
            /\ (Finished(r, t) /\ HasPK(t) /\ ~options.dry_run) =>
                  /\ InChunks(tk.to_insert, "insert")
                  /\ InChunks(PhaseKeys(tk, "update", r, t), "hash")
                  /\ InChunks(tk.to_delete, "delete")

\* a finished task whose three planned keys to insert did not fit into one
\* batch: it sent two insert statements, the second with the last key
C31_Witness ==
    /\ Finished("A", "orders")
    /\ options.batch_size = 2
    /\ Len(task["A"]["orders"].to_insert) = 3
    /\ \E i, j \in DOMAIN oplog["A"]["orders"] :
          /\ i < j
          /\ oplog["A"]["orders"][i].op = "insert"
          /\ oplog["A"]["orders"][j].op = "insert"
          /\ oplog["A"]["orders"][i].keys = {1, 2}
          /\ oplog["A"]["orders"][j].keys = {3}

(***************************************************************************)
(* The signature engine of change_detector.py.  A signature is a record    *)
(* [kind, val]; the empty string is EmptySig.  The MD5 of the joined       *)
(* "name:total_bytes" lines is modelled by the list of pairs itself.       *)
(***************************************************************************)
\* the tables in the order of ORDER BY table_name
TableOrder == <<"notes", "orders", "users">>

\* OCTET_LENGTH(COALESCE(col, ''))
OctetLength(v) == IF v = NULL THEN 0 ELSE Len(v)

\* OCTET_LENGTH(CONCAT_WS('', COALESCE(col, ''), ...)) over all columns of a
\* row; the key is one decimal digit
RowBytes(stored) ==
    1 + OctetLength(stored.c1) + OctetLength(stored.c2) + OctetLength(stored.c1)

\* SUM(...) over the rows of a table; 0 (NULL) for an empty table
RECURSIVE TotalBytes(_)
TotalBytes(tbl) ==
    IF DOMAIN tbl = {} THEN 0
    ELSE LET k == CHOOSE x \in DOMAIN tbl : TRUE
         IN  RowBytes(tbl[k]) + TotalBytes(Without(tbl, {k}))

\* a signature of the row counts instead of the byte totals
content_dynamic_signature_RowCount(side) ==
    LET InSchema(t) == t \in schema[side]
        names == SelectSeq(TableOrder, InSchema)
    IN  IF names = <<>> THEN EmptySig
        ELSE [kind |-> "content",
              val |-> [i \in 1..Len(names) |->
                         <<names[i], Cardinality(DOMAIN db[side][names[i]])>>]]

\* content_dynamic_signature: empty when the schema has no column at all
content_dynamic_signature(side) ==
    LET InSchema(t) == t \in schema[side]
        names == SelectSeq(TableOrder, InSchema)
    IN  IF names = <<>> THEN EmptySig
        ELSE [kind |-> "content",
              val |-> [i \in 1..Len(names) |->
                         <<names[i], TotalBytes(db[side][names[i]])>>]]

\* get_binlog_signature: empty when SHOW MASTER STATUS gives no row or fails
get_binlog_signature(side) ==
    IF binlog[side].on
    THEN [kind |-> "binlog", val |-> <<<<"binlog", binlog[side].pos>>>>]
    ELSE EmptySig

\* get_quick_signature: [raised, sig]; signature_type "" stands for None
get_quick_signature(side, signature_type) ==
    IF signature_type = "content"
    THEN [raised |-> FALSE, sig |-> content_dynamic_signature(side)]
    ELSE IF signature_type = "binlog"
    THEN [raised |-> FALSE, sig |-> get_binlog_signature(side)]
    ELSE IF get_binlog_signature(side) # EmptySig
    THEN [raised |-> FALSE, sig |-> get_binlog_signature(side)]
    ELSE IF content_dynamic_signature(side) # EmptySig
    THEN [raised |-> FALSE, sig |-> content_dynamic_signature(side)]
    ELSE [raised |-> TRUE, sig |-> EmptySig]

\* get_state_file_for_database: Path(".state") is relative to the working
\* directory of the process; the name carries the MD5 of the connection
\* string, which the side stands for
get_state_file_for_database(database_url) ==
    [dir |-> <<env.cwd, ".state">>,
     name |-> <<".sync_db_", MD5(database_url), ".state">>]

\* the state files of the working directory, by connection string
StateDir == IF env.cwd = StartDir THEN stateFile ELSE otherDir

\* state_file.read_text() of an existing file, "" for a missing one
ReadText(state_file) ==
    IF state_file.dir[1] = StartDir THEN stateFile[state_file.name[2]]
    ELSE otherDir[state_file.name[2]]

\* load_last_signature: the signatures that are saved have no surrounding
\* white space, so that strip() gives the text back
load_last_signature(state_file) == ReadText(state_file)

\* the state files of the working directory become files
SaveInStateDir(files) ==
    IF env.cwd = StartDir
    THEN stateFile' = files /\ otherDir' = otherDir
    ELSE otherDir' = files /\ stateFile' = stateFile

\* a check that does not look at the state file
has_database_changes_IgnoresLast(side, signature_type) ==
    LET q == get_quick_signature(side, signature_type)
    IN  [raised |-> q.raised, changed |-> ~q.raised /\ q.sig # EmptySig]

\* has_database_changes: [raised, changed]
has_database_changes(side, signature_type) ==
    LET q == get_quick_signature(side, signature_type)
        last_sig == load_last_signature(get_state_file_for_database(side))
    IN  [raised |-> q.raised,
         changed |-> ~q.raised /\ q.sig # EmptySig /\ q.sig # last_sig]

\* a save that writes nothing
save_current_signature_Noop(files, sig, side) == files

\* save_current_signature(sig, state file of side): the files after it
save_current_signature(files, sig, side) == [files EXCEPT ![side] = sig]

\* write_current_signature: the files after it, and whether it raised
write_current_signature(files, side) ==
    LET q == get_quick_signature(side, "")
    IN  IF q.raised THEN [raised |-> TRUE, files |-> files]
        ELSE IF q.sig # EmptySig
        THEN [raised |-> FALSE, files |-> save_current_signature(files, q.sig, side)]
        ELSE [raised |-> FALSE, files |-> files]

(***************************************************************************)
(* sync_mysql.  A call ends in pc "returned" (normal return), "exit"       *)
(* (SystemExit) or "raised" (another exception); run[r].results records    *)
(* how: "skipped", "completed", "exit1", "exit2", "raised".                *)
(***************************************************************************)
Ended(r, result) ==
    [run EXCEPT ![r].results = Append(@, [how |-> result, ext |-> ext[Src(r)]])]

\* a validation that looks at the dialects only
ConfigRejected_DialectOnly(r) ==
    \/ ~options.config.is_mysql[Src(r)]
    \/ ~options.config.is_mysql[Dst(r)]

\* lines 515-525: both URLs are MySQL URLs, the production port is not 5432
ConfigRejected(r) ==
    \/ ~options.config.is_mysql[Src(r)]
    \/ ~options.config.is_mysql[Dst(r)]
    \/ (options.config.port[Dst(r)] = 5432
          /\ ~options.config.allow_mysql_port_5432)

(*  lines 513-525  *)
MysqlValidate(r) ==
    /\ pc[r] = "validate"
    /\ IF ConfigRejected(r)
       THEN pc' = [pc EXCEPT ![r] = "exit"] /\ run' = Ended(r, "exit2")
       ELSE pc' = [pc EXCEPT ![r] = "detect"] /\ UNCHANGED run
    /\ UNCHANGED <<db, schema, binlog, stateFile, fk, options, task, oplog,
                   lock, ext, init, fault,
                   env, gui, otherDir>>

\* the run is never skipped
SkipsRun_Never(r) == FALSE

\* the skip is taken in a dry run only
SkipsRun_OnlyDryRun(r) ==
    /\ options.change_detector
    /\ options.dry_run
    /\ ~has_database_changes(Src(r), "").raised
    /\ ~has_database_changes(Src(r), "").changed

\* lines 528-534: change detection on, not a dry run, the check does not
\* raise and finds no change
SkipsRun(r) ==
    /\ options.change_detector
    /\ ~options.dry_run
    /\ ~has_database_changes(Src(r), "").raised
    /\ ~has_database_changes(Src(r), "").changed

(*  lines 527-534  *)
MysqlDetect(r) ==
    /\ pc[r] = "detect"
    /\ IF SkipsRun(r)
       THEN pc' = [pc EXCEPT ![r] = "returned"] /\ run' = Ended(r, "skipped")
       ELSE pc' = [pc EXCEPT ![r] = "reflect"] /\ UNCHANGED run
    /\ UNCHANGED <<db, schema, binlog, stateFile, fk, options, task, oplog,
                   lock, ext, init, fault,
                   env, gui, otherDir>>

\* the common names in the order the local side lists them
get_common_table_names_LocalOrder(local_keys, prod_keys) ==
    LET InProd(t) == t \in Range(prod_keys)
    IN  SelectSeq(local_keys, InProd)

\* lines 74-78; the arguments are the keys of the two MetaData.tables, in
\* the order the reflection left them
get_common_table_names(local_keys, prod_keys) ==
    LET local_names == Range(local_keys)
        prod_names == Range(prod_keys)
    IN  sorted(local_names \cap prod_names)

\* `if include:` is false for None and for the empty list
Truthy(list) == list.some /\ list.val # <<>>

\* the entries as they are given
Stripped_Untrimmed(names) == Range(names)

\* set(n.strip() for n in names if n.strip())
Stripped(names) ==
    {strip(names[i]) : i \in {j \in DOMAIN names : strip(names[j]) # <<>>}}

\* lines 81-91; tables is a list of table names, include and exclude are
\* optional lists of strings
filter_tables(tables, include, exclude) ==
    LET Included(t) == Chars(t) \in Stripped(include.val)
        selected == IF Truthy(include) THEN SelectSeq(tables, Included)
                    ELSE tables
        NotExcluded(t) == Chars(t) \notin Stripped(exclude.val)
    IN  IF Truthy(exclude) THEN SelectSeq(selected, NotExcluded) ELSE selected

\* the run goes on without a table
NoTables_Never(tables) == FALSE

\* lines 545 and 550: if not tables
NoTables(tables) == tables = <<>>

(*  lines 536-583: reflect, select the tables, size the pool, submit one   *)
(*  task per table; ThreadPoolExecutor raises ValueError for a size that   *)
(*  is not positive                                                         *)
MysqlReflect(r) ==
    /\ pc[r] = "reflect"
    /\ \E local_keys \in Orderings(schema[Src(r)]),
          prod_keys \in Orderings(schema[Dst(r)]) :
          LET common == get_common_table_names(local_keys, prod_keys)
              tables == filter_tables(common, options.include, options.exclude)
              max_workers == PoolSize(options.max_workers, env)
          IN  IF NoTables(common) \/ NoTables(tables)
              THEN /\ pc' = [pc EXCEPT ![r] = "exit"]
                   /\ run' = Ended(r, "exit1")
                   /\ UNCHANGED task
              ELSE IF max_workers <= 0
              THEN /\ pc' = [pc EXCEPT ![r] = "raised"]
                   /\ run' = Ended(r, "raised")
                   /\ UNCHANGED task
              ELSE /\ pc' = [pc EXCEPT ![r] = "tasks"]
                   /\ task' = [task EXCEPT ![r] =
                          [t \in Tables |->
                             IF t \in Range(tables) THEN PendingTask
                             ELSE IdleTask]]
                   /\ UNCHANGED run
    /\ UNCHANGED <<db, schema, binlog, stateFile, fk, options, oplog, lock,
                   ext, init, fault, env, gui, otherDir>>

\* the signature is persisted in a dry run too
PersistsSignature_Always(dry_run) == TRUE

\* line 591: if not dry_run
PersistsSignature(dry_run) == ~dry_run

\* the run waits for tasks that have not failed only
TasksOver_NoneFailed(r) ==
    \A t \in Tables : task[r][t].pc \in {"idle", "done"}

\* the run goes on as soon as one task is over
TasksOver_AnyEnded(r) ==
    \E t \in Tables : task[r][t].pc \in {"done", "failed"}

\* lines 574-585: _task catches the exception of its sync_table, so every
\* future completes, and as_completed has yielded them all
TasksOver(r) ==
    \A t \in Tables : task[r][t].pc \in {"idle", "done", "failed"}

(*  lines 582-594: every task is over; persist the source signature  *)
MysqlPersist(r) ==
    /\ pc[r] = "tasks"
    /\ TasksOver(r)
    /\ SaveInStateDir(IF PersistsSignature(options.dry_run)
                      THEN write_current_signature(StateDir, Src(r)).files
                      ELSE StateDir)
    /\ pc' = [pc EXCEPT ![r] = "returned"]
    /\ run' = Ended(r, "completed")
    /\ UNCHANGED <<db, schema, binlog, fk, options, task, oplog, lock, ext,
                   init, fault, env, gui>>

\* the steps of one sync_mysql call
MysqlStep(r) ==
    \/ MysqlValidate(r)
    \/ MysqlDetect(r)
    \/ MysqlReflect(r)
    \/ \E t \in Tables : TaskStep(r, t)
    \/ MysqlPersist(r)

\* the state of a runner as a call of sync_mysql begins
Called(r) ==
    /\ pc' = [pc EXCEPT ![r] = "validate"]
    /\ task' = [task EXCEPT ![r] = [t \in Tables |-> IdleTask]]
    /\ oplog' = [oplog EXCEPT ![r] = [t \in Tables |-> <<>>]]

(***************************************************************************)
(* External writers: a row of a table is inserted, replaced or deleted.    *)
(***************************************************************************)
MaxExt == 1

ExtTotal == ext["A"] + ext["B"]

ExtWrite(s, t, k) ==
    /\ ExtTotal < MaxExt
    /\ t \in schema[s]
    /\ \/ /\ k \in DOMAIN db[s][t]
          /\ db' = [db EXCEPT ![s][t] = Without(@, {k})]
       \/ \E v \in RowValuesOf(s) :
             /\ IF k \in DOMAIN db[s][t] THEN db[s][t][k] # v ELSE TRUE
             /\ db' = [db EXCEPT ![s][t] = (k :> v) @@ @]
    /\ binlog' = Logged(s, TRUE)
    /\ ext' = [ext EXCEPT ![s] = @ + 1]
    /\ UNCHANGED <<schema, stateFile, fk, options, pc, task, oplog, run, lock,
                   init, fault,
                   env, gui, otherDir>>

(***************************************************************************)
(* SpecRun: sync_mysql called MaxRuns times in a row from A to B, for      *)
(* small databases, with external writers on A.  The schemas are: both     *)
(* tables on both sides; no table in common; no table at all on A.         *)
(***************************************************************************)
MaxRuns == 2

MaxRunKey == 1

\* the production URL on port 5432, not allowed
Port5432Config == [ValidConfig EXCEPT !.port = [s \in Sides |-> 5432]]

\* a database holds rows only in the tables it has
Masked(d, sch) ==
    [s \in Sides |-> [t \in Tables |-> IF t \in sch[s] THEN d[s][t] ELSE <<>>]]

InitRun ==
    /\ env = DefaultEnv
    /\ \E lo \in TableContents(1..MaxRunKey, RowValuesOf("A")),
          po \in TableContents(1..MaxRunKey, RowValuesOf("B")),
          sch \in {[s \in Sides |-> {"notes", "orders"}],
                   [s \in Sides |-> IF s = "A" THEN {"orders"} ELSE {"notes"}],
                   [s \in Sides |-> IF s = "A" THEN {} ELSE {"notes", "orders"}]},
          bl \in BOOLEAN,
          dry \in BOOLEAN, cd \in BOOLEAN,
          cfg \in {ValidConfig, Port5432Config} :
          InitWith(Masked([s \in Sides |->
                             IF s = "A"
                             THEN [orders |-> lo, notes |-> (1 :> RowA_Null),
                                   users |-> <<>>]
                             ELSE [orders |-> po, notes |-> <<>>,
                                   users |-> <<>>]], sch),
                   sch,
                   [s \in Sides |-> [on |-> (s = "A" /\ bl), pos |-> 0]],
                   [s \in Sides |-> EmptySig],
                   SyncOptions(dry, MaxBatch, TRUE, TRUE, cd, cfg))
    /\ pc = [r \in Runners |-> "idle"]
    /\ task = [r \in Runners |-> [t \in Tables |-> IdleTask]]

\* the caller: one more call once the previous one has ended
CallSync(r) ==
    /\ pc[r] \in {"idle", "returned", "exit"}
    /\ run[r].calls < MaxRuns
    /\ Called(r)
    /\ run' = [run EXCEPT ![r].calls = @ + 1]
    /\ UNCHANGED <<db, schema, binlog, stateFile, fk, options, lock, ext, init, fault,
                   env, gui, otherDir>>

NextRun ==
    \/ CallSync("A")
    \/ MysqlStep("A")
    \/ \E k \in 1..MaxRunKey : ExtWrite("A", "orders", k)

SpecRun == InitRun /\ [][NextRun]_vars

(***************************************************************************)
(* Properties of sync_mysql, checked under SpecRun.                        *)
(***************************************************************************)
\* the second call has ended, and no external writer touched the source
\* after the first call ended
SecondRunOver(r) ==
    /\ run[r].calls = 2
    /\ Len(run[r].results) = 2
    /\ run[r].results[2].ext = run[r].results[1].ext

\* the call that just ended returned through the skip: no task was started
\* and no statement was sent
SkippedCleanly(r) ==
    /\ run[r].results[2].how = "skipped"
    /\ \A t \in Tables : task[r][t] = IdleTask /\ oplog[r][t] = <<>>

\* C4 as stated: of two calls of sync_mysql in a row (not a dry run, change
\* detection on, no source mutation in between), the second sends no insert,
\* upsert or delete and returns through the change-detector skip, before any
\* reflection or table work.
C4_SecondRunSkips ==
    \A r \in Runners :
        (options.change_detector /\ ~options.dry_run /\ SecondRunOver(r))
            => SkippedCleanly(r)

\* C4 as amended: the same, when the first call returned normally (it was
\* skipped or ran its table tasks to the end) and the signature of the source
\* can be computed.
C4_SecondRunSkipsAfterNormalReturn ==
    \A r \in Runners :
        (/\ options.change_detector /\ ~options.dry_run /\ SecondRunOver(r)
         /\ run[r].results[1].how \in {"skipped", "completed"}
         /\ ~get_quick_signature(Src(r), "").raised)
            => SkippedCleanly(r)

\* the first call wrote rows to the destination and the second was skipped
C4_Witness ==
    /\ options.change_detector /\ ~options.dry_run /\ SecondRunOver("A")
    /\ run["A"].results[1].how = "completed"
    /\ run["A"].results[2].how = "skipped"
    /\ db["B"]["orders"] # init.db["B"]["orders"]

\* C37: in the polled one-directional loop with change detection on, a source
\* mutation made while a cycle runs is not lost: when the cycle has completed,
\* the source is left unchanged and the next cycle is skipped, the
\* destination table equals the source table.
C37_SkippedCycleMeansPropagated ==
    \A r \in Runners :
        (/\ options.change_detector /\ ~options.dry_run /\ SecondRunOver(r)
         /\ run[r].results[1].how = "completed"
         /\ run[r].results[2].how = "skipped"
         /\ ext[Src(r)] = run[r].results[2].ext)
            => db[Dst(r)]["orders"] = db[Src(r)]["orders"]

\* C8: a dry-run call sends no statement to the destination (no insert,
\* upsert, delete, foreign-key toggle), leaves the destination rows and the
\* foreign-key setting as they were, and leaves every state file unchanged.
C8_DryRunWritesNothing ==
    options.dry_run =>
        \A r \in Runners :
            /\ \A t \in Tables : oplog[r][t] = <<>>
            /\ ext[Dst(r)] = 0 => db[Dst(r)] = init.db[Dst(r)]
            /\ fk[Dst(r)]
            /\ stateFile = init.stateFile

\* a dry-run call has returned after planning inserts for a table, with the
\* foreign-key checks to be disabled and a signature that is not the saved one
C8_Witness ==
    /\ options.dry_run /\ options.disable_fk_checks
    /\ pc["A"] = "returned"
    /\ task["A"]["orders"].to_insert # <<>>
    /\ has_database_changes("A", "").changed

(***************************************************************************)
(* The bidirectional controller (examples/full_real_time_sync.py): one     *)
(* sync_side loop per direction, named by its source side, sharing         *)
(* sync_lock.  A loop is at "tick" (top of the loop), "wait" (a change was *)
(* seen, waiting for the lock), inside sync_mysql, "returned"/"exit"       *)
(* (sync_mysql is over, the lock still held) or "dead" (thread ended).     *)
(***************************************************************************)
\* the lock is taken whatever its state
LockFree_Always == TRUE

\* line 45: threading.Lock is acquired only when free
LockFree == lock = "free"

\* lines 39-44: the change check of a tick, made without the lock
LoopCheck(r) ==
    /\ pc[r] = "tick"
    /\ run[r].calls < MaxRuns
    /\ LET c == has_database_changes(Src(r), "content")
       IN  /\ run' = [run EXCEPT ![r].changed = c.changed]
           /\ pc' = [pc EXCEPT ![r] = IF c.changed THEN "wait" ELSE "tick"]
    /\ UNCHANGED <<db, schema, binlog, stateFile, fk, options, task, oplog,
                   lock, ext, init, fault,
                   env, gui, otherDir>>

\* lines 45-47: the lock is taken and sync_mysql is called
LoopAcquire(r) ==
    /\ pc[r] = "wait"
    /\ LockFree
    /\ lock' = r
    /\ Called(r)
    /\ run' = [run EXCEPT ![r].calls = @ + 1]
    /\ UNCHANGED <<db, schema, binlog, stateFile, fk, options, ext, init, fault,
                   env, gui, otherDir>>

\* lines 56-59: the signature of the target goes to both state files, the
\* lock is released, and the loop sleeps until its next tick
LoopSave(r) ==
    /\ pc[r] = "returned"
    /\ LET new_sig == get_quick_signature(Dst(r), "content").sig
       IN  SaveInStateDir(save_current_signature(
                              save_current_signature(StateDir, new_sig, Src(r)),
                              new_sig, Dst(r)))
    /\ lock' = "free"
    /\ pc' = [pc EXCEPT ![r] = "tick"]
    /\ UNCHANGED <<db, schema, binlog, fk, options, task, oplog, run, ext,
                   init, fault, env, gui>>

\* an exception that leaves the loop body with the lock still held
LoopUnwind_KeepsLock(r) ==
    /\ pc[r] \in {"exit", "raised"}
    /\ pc' = [pc EXCEPT ![r] = IF pc[r] = "exit" THEN "dead" ELSE "tick"]
    /\ UNCHANGED <<db, schema, binlog, stateFile, fk, options, task, oplog,
                   run, ext, init, fault, lock,
                   env, gui, otherDir>>

\* lines 61-67: an exception leaves the with block, which releases the lock.
\* SystemExit is neither KeyboardInterrupt nor an Exception and ends the
\* thread; an Exception is printed and the loop sleeps until its next tick
LoopUnwind(r) ==
    /\ pc[r] \in {"exit", "raised"}
    /\ lock' = "free"
    /\ pc' = [pc EXCEPT ![r] = IF pc[r] = "exit" THEN "dead" ELSE "tick"]
    /\ UNCHANGED <<db, schema, binlog, stateFile, fk, options, task, oplog,
                   run, ext, init, fault,
                   env, gui, otherDir>>

sync_side(r) ==
    \/ LoopCheck(r)
    \/ LoopAcquire(r)
    \/ MysqlStep(r)
    \/ LoopSave(r)
    \/ LoopUnwind(r)

\* lines 47-53: the options of the controller's sync_mysql calls
ControllerOptions ==
    SyncOptions(FALSE, MaxBatch, TRUE, TRUE, FALSE,
                [ValidConfig EXCEPT !.allow_mysql_port_5432 = TRUE])

\* the state files hold the content signatures of the databases d with the
\* schemas sch, as after an earlier quiet tick
SavedSignatures(d, sch) ==
    [s \in Sides |->
        LET InSchema(t) == t \in sch[s]
            names == SelectSeq(TableOrder, InSchema)
        IN  IF names = <<>> THEN EmptySig
            ELSE [kind |-> "content",
                  val |-> [i \in 1..Len(names) |->
                             <<names[i], TotalBytes(d[s][names[i]])>>]]]

InitBidir ==
    /\ env = DefaultEnv
    /\ \E lo \in TableContents(1..MaxRunKey, RowValuesOf("A")),
          po \in TableContents(1..MaxRunKey, RowValuesOf("B")),
          sch \in {[s \in Sides |-> {"orders"}],
                   [s \in Sides |-> IF s = "A" THEN {"orders"} ELSE {"notes"}],
                   [s \in Sides |-> IF s = "A" THEN {} ELSE {"orders"}]} :
          LET d == Masked([s \in Sides |->
                             [orders |-> IF s = "A" THEN lo ELSE po,
                              notes |-> <<>>, users |-> <<>>]], sch)
          IN  InitWith(d, sch,
                       [s \in Sides |-> [on |-> FALSE, pos |-> 0]],
                       SavedSignatures(d, sch), ControllerOptions)
    /\ pc = [r \in Runners |-> "tick"]
    /\ task = [r \in Runners |-> [t \in Tables |-> IdleTask]]

NextBidir ==
    \/ \E r \in Runners : sync_side(r)
    \/ \E s \in Sides, k \in 1..MaxRunKey : ExtWrite(s, "orders", k)

SpecBidir == InitBidir /\ [][NextBidir]_vars

(***************************************************************************)
(* Properties of the controller, checked under SpecBidir.                  *)
(***************************************************************************)
\* the apply phase: from the sync_mysql call to the update of the state files
InApply(r) ==
    pc[r] \in {"validate", "detect", "reflect", "tasks", "returned", "exit",
               "raised"}

\* the last sync_mysql call of loop r ran its table tasks to the end
AppliedSuccessfully(r) ==
    /\ run[r].results # <<>>
    /\ run[r].results[Len(run[r].results)].how = "completed"

\* C5 as stated: once an A->B apply has completed successfully, a change check
\* on B reports no change as long as B has a persisted signature and has been
\* modified since only by the rows of that apply, also when the check is made
\* before the A->B loop has written the signatures.
C5_NoChangeSeenAfterApply ==
    \A r \in Runners :
        (/\ AppliedSuccessfully(r)
         /\ pc[r] \in {"returned", "tick"}
         /\ run[r].calls = 1
         /\ init.stateFile[Dst(r)] # EmptySig
         /\ ext[Dst(r)] = 0
         /\ run[Dst(r)].calls = 0)
            => ~has_database_changes(Dst(r), "content").changed

\* C6: at most one of the two loops is inside its apply phase.
C6_OneApplyAtATime == ~(InApply("A") /\ InApply("B"))

\* loop A is applying while loop B has seen a change and waits for the lock
C6_Witness ==
    /\ pc["A"] = "tasks" /\ lock = "A"
    /\ \E t \in Tables : oplog["A"][t] # <<>>
    /\ pc["B"] = "wait"

\* C7 as stated: a direction loop never terminates because a tick failed.
C7_LoopNeverTerminates == \A r \in Runners : pc[r] # "dead"

(***************************************************************************)
(* Failing statements.  A statement a task is about to send fails for a    *)
(* reason outside the program; its transaction is rolled back, so the      *)
(* destination rows stay as they are.                                      *)
(***************************************************************************)
MaxFaults == 1

\* lines 388-389: the key scan raises before the try block is entered;
\* lines 408-476: a batch statement raises and the exception leaves the try
\* block through finally
TaskRaise(r, t) ==
    /\ fault < MaxFaults
    /\ \/ /\ task[r][t].pc = "pending"
          /\ WorkerFree(r)
          /\ ~SkipsTable(get_primary_key_column_names(t))
          /\ task' = [task EXCEPT ![r][t].pc = "failed", ![r][t].raised = TRUE]
       \/ /\ task[r][t].pc \in {"insert", "hash", "upsert", "delete"}
          /\ task' = [task EXCEPT ![r][t] = Finally(@, TRUE)]
    /\ fault' = fault + 1
    /\ UNCHANGED <<db, schema, binlog, stateFile, fk, options, pc, oplog, run,
                   lock, ext, init,
                   env, gui, otherDir>>

(***************************************************************************)
(* SpecPool: one sync_mysql call from A to B over the two keyed tables     *)
(* "orders" and "users", whose tasks run in parallel on the thread pool,   *)
(* with failing statements.                                                *)
(***************************************************************************)
UsersContents(s) ==
    IF s = "A" THEN {<<>>, (1 :> RowAB_C)} ELSE {<<>>, (1 :> RowA_Null)}

InitPool ==
    /\ env = DefaultEnv
    /\ \E lo \in TableContents(1..MaxRunKey, RowValuesOf("A")),
          po \in TableContents(1..MaxRunKey, RowValuesOf("B")),
          lu \in UsersContents("A"), pu \in UsersContents("B"),
          fkf \in BOOLEAN :
          InitWith([s \in Sides |->
                      IF s = "A"
                      THEN [orders |-> lo, notes |-> <<>>, users |-> lu]
                      ELSE [orders |-> po, notes |-> <<>>, users |-> pu]],
                   [s \in Sides |-> {"orders", "users"}],
                   [s \in Sides |-> [on |-> FALSE, pos |-> 0]],
                   [s \in Sides |-> EmptySig],
                   SyncOptions(FALSE, MaxBatch, fkf, TRUE, FALSE, ValidConfig))
    /\ pc = [r \in Runners |-> IF r = "A" THEN "validate" ELSE "idle"]
    /\ task = [r \in Runners |-> [t \in Tables |-> IdleTask]]

NextPool ==
    \/ MysqlStep("A")
    \/ \E t \in Tables : TaskRaise("A", t)

SpecPool == InitPool /\ [][NextPool]_vars

\* the thread pool runs every submitted task, and the main thread goes on
\* when all futures are done
SpecPoolFair == SpecPool /\ WF_vars(MysqlStep("A"))

(***************************************************************************)
(* Properties of the table tasks of one call, checked under SpecPool and   *)
(* SpecPoolFair.                                                           *)
(***************************************************************************)
LastResult(r) == run[r].results[Len(run[r].results)]

TaskEnded(r, t) == task[r][t].pc \in {"done", "failed"}

Applying(r, t) == task[r][t].pc \in {"insert", "hash", "upsert", "delete"}

LastOp(r, t) == oplog[r][t][Len(oplog[r][t])].op

C12_ChecksOffWhileApplying ==
    \A r \in Runners, t \in Tables :
        (options.disable_fk_checks /\ Applying(r, t)) => ~fk[Dst(r)]

\* C13: once the task of a table has failed, the call goes on: every selected
\* table's task reaches its end and sync_mysql returns normally.
C13_FailureIsIsolated ==
    \A t \in Tables :
        (task["A"][t].pc = "failed")
            ~> (/\ pc["A"] = "returned"
                /\ run["A"].results[Len(run["A"].results)].how = "completed"
                /\ \A u \in schema["A"] \cap schema["B"] : TaskEnded("A", u))

\* the call has returned with one task failed and the other one done after
\* it wrote to the destination
C13_Witness ==
    /\ pc["A"] = "returned"
    /\ \E t, u \in Tables :
          /\ task["A"][t].pc = "failed"
          /\ task["A"][u].pc = "done"
          /\ {"insert", "upsert", "delete"} \cap OpsOf("A", u) # {}

\* C14 as stated: a call in which the task of some table failed leaves the
\* state file of the source as it was.
C14_SignatureKeptAfterFailure ==
    \A r \in Runners :
        (pc[r] = "returned" /\ \E t \in Tables : task[r][t].pc = "failed")
            => stateFile[Src(r)] = init.stateFile[Src(r)]

\* C20 as stated: no insert or upsert payload contains a column that the
\* schema of the source or the schema of the destination flags as computed.
C20_NoComputedColumnInPayload ==
    \A r \in Runners, t \in Tables :
        \A i \in DOMAIN oplog[r][t] :
            oplog[r][t][i].op \in {"insert", "upsert"} =>
                oplog[r][t][i].cols
                    \cap (get_computed_column_names(Src(r), t)
                            \cup get_computed_column_names(Dst(r), t)) = {}

\* C28: the step in which sync_mysql leaves the pool, computes the source
\* signature and writes it is taken only when every dispatched task has ended
\* (done or failed) and it changes no task; the state file changes in no
\* other step, and a call that has returned as completed has no task left
\* running.
C28_PersistAfterAllTasks ==
    /\ [](\A r \in Runners :
            (pc[r] = "returned" \/ stateFile[Src(r)] # init.stateFile[Src(r)])
                => \A t \in Tables : task[r][t].pc \in {"idle", "done", "failed"})
    /\ [][\A r \in Runners :
            (pc[r] = "tasks" /\ (pc'[r] # "tasks" \/ stateFile' # stateFile)) =>
                /\ \A t \in Tables : task[r][t].pc \in {"idle", "done", "failed"}
                /\ task' = task
                /\ pc'[r] = "returned"
        ]_vars

\* the call has returned and written the signature of the source; one of
\* its tasks had failed and another one had sent its statements
C28_Witness ==
    /\ pc["A"] = "returned"
    /\ LastResult("A").how = "completed"
    /\ stateFile["A"] # init.stateFile["A"]
    /\ \E t, u \in Tables :
          /\ task["A"][t].pc = "failed"
          /\ task["A"][u].pc = "done" /\ oplog["A"][u] # <<>>

(***************************************************************************)
(* Properties of the change detector, checked under SpecRun.               *)
(***************************************************************************)
\* the signature of the default strategy chain: binlog, then content
CurrentSignature(side) ==
    IF get_binlog_signature(side) # EmptySig THEN get_binlog_signature(side)
    ELSE content_dynamic_signature(side)

\* C15: with change detection on, not a dry run and no source change
\* detected, the call returns at the change check, marked skipped; from its
\* entry to its return it changes no row, no foreign-key setting and no state
\* file, starts no table task and sends no statement.
C15_SkipHasNoSideEffect ==
    [][\A r \in Runners :
          (pc[r] \in {"validate", "detect"} /\ pc'[r] # pc[r]) =>
              /\ UNCHANGED <<db, schema, binlog, stateFile, fk, task, oplog>>
              /\ \A t \in Tables : task[r][t] = IdleTask /\ oplog[r][t] = <<>>
              /\ (/\ pc[r] = "detect"
                  /\ options.change_detector /\ ~options.dry_run
                  /\ CurrentSignature(Src(r)) # EmptySig
                  /\ CurrentSignature(Src(r)) = stateFile[Src(r)])
                     => (pc'[r] = "returned"
                           /\ run'[r].results[Len(run'[r].results)].how = "skipped")
      ]_vars

\* a call has been skipped although the source was written to earlier and
\* the two sides hold different rows
C15_Witness ==
    /\ pc["A"] = "returned"
    /\ Len(run["A"].results) = 2
    /\ LastResult("A").how = "skipped"
    /\ ext["A"] = 1
    /\ stateFile["A"] # EmptySig
    /\ fk["B"]

\* C17: has_database_changes is true iff the current signature (of the
\* selected strategy) is not empty and differs from the content of the
\* state file, a missing file counting as empty; the change check of
\* sync_mysql leaves the state files as they are.
C17_ChangedIffNewSignature ==
    /\ [](\A side \in Sides :
            /\ has_database_changes(side, "content").changed
                  = (/\ content_dynamic_signature(side) # EmptySig
                     /\ content_dynamic_signature(side) # stateFile[side])
            /\ has_database_changes(side, "binlog").changed
                  = (/\ get_binlog_signature(side) # EmptySig
                     /\ get_binlog_signature(side) # stateFile[side])
            /\ has_database_changes(side, "").changed
                  = (/\ CurrentSignature(side) # EmptySig
                     /\ CurrentSignature(side) # stateFile[side]))
    /\ [][\A r \in Runners :
            (pc[r] = "detect" /\ pc'[r] # "detect") => stateFile' = stateFile
        ]_vars

\* the change check of a second call has found the source signature
\* different from the persisted one; and a first call found no state file
C17_Witness ==
    /\ Len(run["A"].results) = 1
    /\ pc["A"] = "reflect"
    /\ options.change_detector /\ ~options.dry_run
    /\ stateFile["A"] # EmptySig
    /\ init.stateFile["A"] = EmptySig
    /\ has_database_changes("A", "").changed

(***************************************************************************)
(* The quick signature of sync.py (lines 299-338): per table the row       *)
(* count, the sum of the checksums of the keys and the largest key.  The   *)
(* checksum of a key is modelled by the key.                               *)
(***************************************************************************)
RECURSIVE SumOf(_)
SumOf(S) ==
    IF S = {} THEN 0
    ELSE LET k == CHOOSE x \in S : TRUE IN k + SumOf(S \ {k})

table_quick_fingerprint(tbl, pk_column_names) ==
    IF pk_column_names = <<>> THEN <<Cardinality(DOMAIN tbl)>>
    ELSE <<Cardinality(DOMAIN tbl), SumOf(DOMAIN tbl),
           IF DOMAIN tbl = {} THEN 0
           ELSE CHOOSE m \in DOMAIN tbl : \A k \in DOMAIN tbl : k <= m>>

database_quick_signature(side) ==
    LET InSchema(t) == t \in schema[side]
        names == SelectSeq(TableOrder, InSchema)
    IN  [kind |-> "quick",
         val |-> [i \in 1..Len(names) |->
                    <<names[i],
                      table_quick_fingerprint(db[side][names[i]],
                          get_primary_key_column_names(names[i]))>>]]

\* C18 as stated: an explicitly selected strategy (binlog, content or quick)
\* is the one used; with none selected the signature is the first non-empty
\* one of binlog, content, quick.
C18_StrategySelection ==
    \A side \in Sides :
        /\ get_quick_signature(side, "binlog")
              = [raised |-> FALSE, sig |-> get_binlog_signature(side)]
        /\ get_quick_signature(side, "content")
              = [raised |-> FALSE, sig |-> content_dynamic_signature(side)]
        /\ get_quick_signature(side, "quick")
              = [raised |-> FALSE, sig |-> database_quick_signature(side)]
        /\ get_quick_signature(side, "")
              = [raised |-> FALSE,
                 sig |-> IF CurrentSignature(side) # EmptySig
                         THEN CurrentSignature(side)
                         ELSE database_quick_signature(side)]

(***************************************************************************)
(* Properties of the signatures of the controller, checked under SpecBidir.*)
(***************************************************************************)
\* C16 as stated: when the signature of the source cannot be computed, the
\* cycle goes on as if a change had occurred: sync_mysql does not take the
\* skip, and the change check of a controller tick reports a change.
C16_NoSignatureMeansChange ==
    \A r \in Runners :
        /\ get_quick_signature(Src(r), "").raised => ~SkipsRun(r)
        /\ (pc[r] = "tick" /\ content_dynamic_signature(Src(r)) = EmptySig)
              => has_database_changes(Src(r), "content").changed

GateConfigs ==
    {ValidConfig, Port5432Config,
     [Port5432Config EXCEPT !.allow_mysql_port_5432 = TRUE],
     [ValidConfig EXCEPT !.port["A"] = 5432],
     [ValidConfig EXCEPT !.is_mysql["A"] = FALSE],
     [ValidConfig EXCEPT !.is_mysql["B"] = FALSE]}

\* all tables on both sides; two tables in common; one; none
GateSchemas ==
    {[s \in Sides |-> Tables],
     [s \in Sides |-> IF s = "A" THEN Tables ELSE {"notes", "users"}],
     [s \in Sides |-> IF s = "A" THEN {"orders", "users"}
                      ELSE {"notes", "orders"}],
     [s \in Sides |-> IF s = "A" THEN {"orders"} ELSE {"notes", "users"}]}

\* the include and exclude arguments: absent, empty, naming tables with and
\* without whitespace, blank entries only, a name that is no table, an
\* exclude list that names every included table
GateFilters ==
    {<<Absent, Absent>>,
     <<Some(<<>>), Some(<<>>)>>,
     <<Some(<<<<" ">> \o Chars("orders") \o <<" ", "\t">>>>), Absent>>,
     <<Some(<<Chars("users"), <<" ", " ">>, Chars("orders")>>),
       Some(<<Chars("users") \o <<"\n">>>>)>>,
     <<Absent, Some(<<Chars("orders"), <<" ">>>>)>>,
     <<Some(<<<<" ">>>>), Absent>>,
     <<Some(<<Chars("notes"), Chars("orders")>>), Some(<<<<"\t">>>>)>>,
     <<Some(<<<<"o", "r", "d", "e", "r">>>>), Absent>>,
     <<Some(<<Chars("users"), Chars("notes")>>),
       Some(<<<<" ">> \o Chars("users"), Chars("notes")>>)>>}

\* max_workers, SYNC_MAX_WORKERS and os.cpu_count()
GatePools ==
    {<<NoInt, None, Some(1)>>,
     <<NoInt, None, NoInt>>,
     <<NoInt, None, Some(8)>>,
     <<NoInt, <<"3">>, Some(1)>>,
     <<NoInt, <<" ", "1">>, Some(1)>>,
     <<NoInt, <<"x">>, Some(2)>>,
     <<NoInt, <<"0">>, Some(1)>>,
     <<NoInt, <<"-", "1">>, Some(1)>>,
     <<NoInt, <<>>, Some(1)>>,
     <<Some(1), <<"3">>, Some(1)>>,
     <<Some(3), None, Some(1)>>,
     <<Some(0), None, Some(1)>>}

InitGate ==
    /\ \E cfg \in GateConfigs, sch \in GateSchemas, flt \in GateFilters,
          pool \in GatePools :
          /\ InitWith(Masked([s \in Sides |->
                                 IF s = "A"
                                 THEN [orders |-> (1 :> RowAB_C @@ 2 :> RowA_Null),
                                       notes |-> (1 :> RowA_Null),
                                       users |-> <<>>]
                                 ELSE [orders |-> (2 :> RowA_BC @@ 3 :> RowA_Null),
                                       notes |-> <<>>,
                                       users |-> (1 :> RowA_Null)]], sch),
                      sch,
                      [s \in Sides |-> [on |-> FALSE, pos |-> 0]],
                      [s \in Sides |-> EmptySig],
                      [SyncOptions(FALSE, MaxBatch, TRUE, TRUE, TRUE, cfg)
                         EXCEPT !.include = flt[1], !.exclude = flt[2],
                                !.max_workers = pool[1]])
          /\ env = [DefaultEnv EXCEPT !.SYNC_MAX_WORKERS = pool[2],
                                      !.cpu_count = pool[3]]
    /\ pc = [r \in Runners |-> IF r = "A" THEN "validate" ELSE "idle"]
    /\ task = [r \in Runners |-> [t \in Tables |-> IdleTask]]

NextGate == MysqlStep("A")

SpecGate == InitGate /\ [][NextGate]_vars

(***************************************************************************)
(* Properties of the entry of sync_mysql, checked under SpecGate.          *)
(***************************************************************************)
\* the call of runner r has sent nothing and changed nothing
Untouched(r) ==
    /\ db = init.db
    /\ stateFile = init.stateFile
    /\ \A s \in Sides : fk[s]
    /\ \A t \in Tables : task[r][t] = IdleTask /\ oplog[r][t] = <<>>

\* C21: when an endpoint is not of the MySQL dialect, or the destination
\* port is 5432 and the override is not given, a call ends by exit code 2
\* straight from the validation: it never reaches the change check, the
\* reflection or a table task, and no row, setting or state file has changed.
\* With any other pair of URLs the call does not end by exit code 2.
C21_InvalidConfigAborts ==
    \A r \in Runners :
        LET cfg == options.config
            invalid == \/ ~cfg.is_mysql[Src(r)] \/ ~cfg.is_mysql[Dst(r)]
                       \/ (cfg.port[Dst(r)] = 5432 /\ ~cfg.allow_mysql_port_5432)
        IN  IF invalid
            THEN pc[r] # "idle" =>
                     /\ pc[r] \in {"validate", "exit"}
                     /\ pc[r] = "exit" => LastResult(r).how = "exit2"
                     /\ Untouched(r)
            ELSE \A i \in DOMAIN run[r].results : run[r].results[i].how # "exit2"

\* the call has ended by exit code 2 for the port alone, with change
\* detection on and rows waiting to be synced
C21_Witness ==
    /\ pc["A"] = "exit"
    /\ LastResult("A").how = "exit2"
    /\ options.config.is_mysql["A"] /\ options.config.is_mysql["B"]
    /\ options.change_detector
    /\ db["A"]["orders"] # db["B"]["orders"]

\* the tables both sides have, and those of them the filter keeps
CommonTables == schema["A"] \cap schema["B"]

KeptTables ==
    Range(filter_tables(sorted(CommonTables), options.include, options.exclude))

\* C22: when the two sides have no table name in common, or the filter
\* keeps none of the common tables, a call with valid URLs ends by exit code
\* 1 with no task dispatched, no statement sent, no destination row changed
\* and no state file written; when a table is kept the call does not end by
\* exit code 1.
C22_NoTablesAborts ==
    \A r \in Runners :
        (pc[r] \in {"tasks", "returned", "raised", "exit"} /\ ~ConfigRejected(r)) =>
            IF KeptTables = {}
            THEN /\ pc[r] = "exit" /\ LastResult(r).how = "exit1"
                 /\ Untouched(r)
            ELSE /\ pc[r] # "exit"
                 /\ pc[r] # "raised" =>
                       \A t \in Tables :
                           task[r][t].pc # "idle" <=> t \in KeptTables

\* the call has ended by exit code 1 because the filter removed every one of
\* the tables the two sides share
C22_Witness ==
    /\ pc["A"] = "exit"
    /\ LastResult("A").how = "exit1"
    /\ Cardinality(CommonTables) > 1
    /\ Truthy(options.include) /\ Truthy(options.exclude)
    /\ db["A"]["orders"] # db["B"]["orders"]

MaxNames == 3

\* C23: filter_tables(names, include, exclude) is the list names, in its
\* order, without the names that include (when given and not empty) does not
\* name and without the names that exclude names; an entry names a table
\* when it is the table's name with nothing but whitespace before and after
\* it.  Checked for the lists of up to MaxNames table names.
C23_FilterKeepsNamedTables ==
    LET NamedBy(entry, n) ==
            \E i \in 0..Len(entry) :
                /\ i + Len(Chars(n)) <= Len(entry)
                /\ SubSeq(entry, i + 1, i + Len(Chars(n))) = Chars(n)
                /\ \A j \in DOMAIN entry :
                      (j <= i \/ j > i + Len(Chars(n)))
                          => entry[j] \in Whitespace
        KeptByFilter(n) ==
            /\ \/ ~options.include.some
               \/ options.include.val = <<>>
               \/ \E i \in DOMAIN options.include.val :
                     NamedBy(options.include.val[i], n)
            /\ \A j \in DOMAIN options.exclude.val :
                  ~NamedBy(options.exclude.val[j], n)
    IN  \A names \in UNION {[1..n -> Tables] : n \in 0..MaxNames} :
            filter_tables(names, options.include, options.exclude)
                = SelectSeq(names, KeptByFilter)

\* the tasks of a call were selected by an include entry with whitespace
\* around the name, which kept one of several common tables
C23_Witness ==
    /\ pc["A"] = "tasks"
    /\ \E i \in DOMAIN options.include.val :
          options.include.val[i] # strip(options.include.val[i])
    /\ KeptTables # {} /\ KeptTables # CommonTables
    /\ \A t \in Tables : task["A"][t].pc # "idle" <=> t \in KeptTables

\* C24: whatever the order in which the two sides list their tables,
\* get_common_table_names returns the names both sides have, each once, in
\* ascending alphabetical order.
C24_CommonTablesSorted ==
    \A local_keys \in Orderings(schema["A"]), prod_keys \in Orderings(schema["B"]) :
        LET common == get_common_table_names(local_keys, prod_keys)
            OnBothSides(t) == t \in schema["A"] /\ t \in schema["B"]
        IN  /\ Range(common) = schema["A"] \cap schema["B"]
            /\ Len(common) = Cardinality(schema["A"] \cap schema["B"])
            /\ \A i, j \in DOMAIN common :
                  i < j => StrLess(Chars(common[i]), Chars(common[j]))
            /\ common = SelectSeq(TableOrder, OnBothSides)

\* an unfiltered call has dispatched the tasks of the two tables that the
\* sides, whose schemas differ, have in common
C24_Witness ==
    /\ pc["A"] = "tasks"
    /\ schema["A"] # schema["B"]
    /\ Cardinality(CommonTables) = 2
    /\ ~Truthy(options.include) /\ ~Truthy(options.exclude)
    /\ \A t \in Tables : task["A"][t].pc # "idle" <=> t \in CommonTables

\* C25 as stated: the size passed to the worker pool of a call that has
\* reached the pool is at least 1, and no more tasks than that are running.
C25_PoolSizeAtLeastOne ==
    \A r \in Runners :
        pc[r] \in {"tasks", "returned", "raised"} =>
            /\ PoolSize(options.max_workers, env) >= 1
            /\ Running(r) <= PoolSize(options.max_workers, env)

(***************************************************************************)
(* SpecDup: one sync_mysql call from A to B over "orders" (a row to        *)
(* insert, one to update, one to delete) and "users" (a row to insert),    *)
(* with and without insert-ignore, while another writer changes the        *)
(* "orders" table of B: a key of to_insert may be there when its batch is  *)
(* sent.                                                                   *)
(***************************************************************************)
InitDup ==
    /\ env = DefaultEnv
    /\ \E ign \in BOOLEAN, bs \in 1..MaxBatch :
          InitWith([s \in Sides |->
                      IF s = "A"
                      THEN [orders |-> (1 :> RowAB_C @@ 2 :> RowA_Null),
                            notes |-> <<>>, users |-> (1 :> RowA_Null)]
                      ELSE [orders |-> (2 :> RowA_BC @@ 3 :> RowA_Null),
                            notes |-> <<>>, users |-> <<>>]],
                   [s \in Sides |-> {"orders", "users"}],
                   [s \in Sides |-> [on |-> FALSE, pos |-> 0]],
                   [s \in Sides |-> EmptySig],
                   SyncOptions(FALSE, bs, TRUE, ign, FALSE, ValidConfig))
    /\ pc = [r \in Runners |-> IF r = "A" THEN "validate" ELSE "idle"]
    /\ task = [r \in Runners |-> [t \in Tables |-> IdleTask]]

NextDup ==
    \/ MysqlStep("A")
    \/ \E k \in KeySpace : ExtWrite("B", "orders", k)

SpecDup == InitDup /\ [][NextDup]_vars

(***************************************************************************)
(* Properties of the insert phase, checked under SpecDup.                  *)
(***************************************************************************)
\* C27: when an insert batch is sent and the destination holds some of its
\* keys, then with insert-ignore the batch does not fail, the rows the
\* destination holds at those keys stay as they are, the other keys are
\* inserted and the task goes on (a task that ends has compared every
\* overlap key and deleted every to_delete key); without insert-ignore the
\* task fails with no row written, it sends no hash fetch, upsert or delete,
\* and the tasks of the other tables are not affected.
C27_DuplicateKeyOnInsert ==
    /\ [][\A r \in Runners, t \in Tables :
            (task[r][t].pc = "insert" /\ task'[r][t] # task[r][t]) =>
                LET batch == Range(Head(task[r][t].batches))
                    dup == batch \cap DOMAIN db[Dst(r)][t]
                IN  dup # {} =>
                      IF options.use_insert_ignore
                      THEN /\ ~task'[r][t].raised
                           /\ task'[r][t].pc # "failed"
                           /\ \A k \in dup : db'[Dst(r)][t][k] = db[Dst(r)][t][k]
                           /\ \A k \in batch \ dup :
                                 /\ k \in DOMAIN db'[Dst(r)][t]
                                 /\ db'[Dst(r)][t][k] = db[Src(r)][t][k]
                      ELSE /\ task'[r][t].raised
                           /\ task'[r][t].pc \in {"fk_on", "failed"}
                           /\ db' = db
                           /\ \A u \in Tables \ {t} : task'[r][u] = task[r][u]
        ]_vars
    /\ [](\A r \in Runners, t \in Tables :
            /\ task[r][t].raised =>
                  /\ ~options.use_insert_ignore
                  /\ t = "orders"
                  /\ OpsOf(r, t) \cap {"hash", "upsert", "delete"} = {}
            /\ (task[r][t].pc = "done" /\ HasPK(t)) =>
                  /\ KeysOf(r, t, "hash") = Range(task[r][t].overlap)
                  /\ KeysOf(r, t, "delete") = Range(task[r][t].to_delete))

\* without insert-ignore: the call has returned; the task of "orders" failed
\* on its insert batch, whose key another writer had inserted after the key
\* scan, and the task of "users" inserted its row
C27_Witness ==
    /\ ~options.use_insert_ignore
    /\ pc["A"] = "returned"
    /\ task["A"]["orders"].pc = "failed"
    /\ LastOp("A", "orders") = "fk_on"
    /\ 1 \in KeysOf("A", "orders", "insert")
    /\ db["B"]["orders"][1] # db["A"]["orders"][1]
    /\ task["A"]["users"].pc = "done"
    /\ db["B"]["users"] = db["A"]["users"]

(***************************************************************************)
(* SpecSig: sync_mysql is started MaxRuns times from A to B, each time by  *)
(* a process whose working directory is the repository or its examples     *)
(* directory, with change detection on and no binary log, so that the      *)
(* signature is the content signature.  A has the tables "orders" and     *)
(* "users", B only "orders".  Between the calls another writer edits A:   *)
(* it replaces a row by one of the same byte length, inserts a row or      *)
(* deletes one.                                                            *)
(***************************************************************************)
\* two rows of the same length in bytes
SigValues == {RowA_Null, [c1 |-> <<"b">>, c2 |-> NULL]}

InitSig ==
    /\ env = DefaultEnv
    /\ \E lo \in TableContents(1..MaxRunKey, SigValues) :
          InitWith([s \in Sides |->
                      IF s = "A"
                      THEN [orders |-> lo, notes |-> <<>>,
                            users |-> (1 :> RowA_Null)]
                      ELSE [orders |-> <<>>, notes |-> <<>>, users |-> <<>>]],
                   [s \in Sides |->
                      IF s = "A" THEN {"orders", "users"} ELSE {"orders"}],
                   [s \in Sides |-> [on |-> FALSE, pos |-> 0]],
                   [s \in Sides |-> EmptySig],
                   SyncOptions(FALSE, MaxBatch, TRUE, TRUE, TRUE, ValidConfig))
    /\ pc = [r \in Runners |-> "idle"]
    /\ task = [r \in Runners |-> [t \in Tables |-> IdleTask]]

\* a process started in directory d calls sync_mysql
CallSyncFrom(r, d) ==
    /\ pc[r] \in {"idle", "returned", "exit"}
    /\ run[r].calls < MaxRuns
    /\ Called(r)
    /\ run' = [run EXCEPT ![r].calls = @ + 1]
    /\ env' = [env EXCEPT !.cwd = d]
    /\ UNCHANGED <<db, schema, binlog, stateFile, fk, options, lock, ext, init,
                   fault, otherDir, gui>>

\* another writer on s, while no call is running: a row of t is deleted,
\* inserted or replaced
ExtEdit(s, t, k) ==
    /\ ExtTotal < MaxExt
    /\ pc[s] \in {"idle", "returned", "exit"}
    /\ t \in schema[s]
    /\ \/ /\ k \in DOMAIN db[s][t]
          /\ db' = [db EXCEPT ![s][t] = Without(@, {k})]
       \/ \E v \in SigValues :
             /\ IF k \in DOMAIN db[s][t] THEN db[s][t][k] # v ELSE TRUE
             /\ db' = [db EXCEPT ![s][t] = (k :> v) @@ @]
    /\ binlog' = Logged(s, TRUE)
    /\ ext' = [ext EXCEPT ![s] = @ + 1]
    /\ UNCHANGED <<schema, stateFile, fk, options, pc, task, oplog, run, lock,
                   init, fault, env, gui, otherDir>>

NextSig ==
    \/ \E d \in {StartDir, "/srv/sync/examples"} : CallSyncFrom("A", d)
    \/ MysqlStep("A")
    \/ \E k \in 1..MaxRunKey : ExtEdit("A", "orders", k)
    \/ ExtEdit("A", "users", 1)

SpecSig == InitSig /\ [][NextSig]_vars

(***************************************************************************)
(* Properties of the content signature and of the state files, checked     *)
(* under SpecSig.                                                          *)
(***************************************************************************)
\* the total byte length of every table of a side, by table name
Totals(d, s) == [t \in schema[s] |-> TotalBytes(d[s][t])]

C30_SameFileOnEveryInvocation ==
    /\ [](\A r \in Runners :
            (/\ pc[r] = "validate"
             /\ run[r].calls >= 2
             /\ LastResult(r).how = "completed"
             /\ LastResult(r).ext = ext[Src(r)])
               => load_last_signature(get_state_file_for_database(Src(r)))
                    = CurrentSignature(Src(r)))
    /\ [][\A s \in Sides :
            get_state_file_for_database(s)' = get_state_file_for_database(s)
        ]_vars

(***************************************************************************)
(* Properties of the batch operations, checked under SpecRun, where a      *)
(* writer on the source can delete the rows of a batch between the key     *)
(* scan and the fetch, so that the insert or the upsert gets no row.       *)
(***************************************************************************)
\* C32: every batch operation called with an empty key or row list returns
\* the empty result or 0 and sends no statement: on every table of either
\* side the two fetches give nothing, and insert, upsert and delete succeed,
\* leave the table as it is and send nothing; a task step whose insert or
\* upsert gets no row sends no statement, changes no row of either side and
\* goes on without an error.
C32_EmptyBatchNoStatement ==
    /\ [](\A s \in Sides, t \in Tables :
            LET nothing == [ok |-> TRUE, tbl |-> db[s][t], sent |-> {}]
            IN  /\ fetch_rows_by_pks(db[s][t], <<>>) = {}
                /\ fetch_hashes_for_pks(db[s][t],
                       get_updatable_column_names(s, t), <<>>) = <<>>
                /\ \A ign \in BOOLEAN : insert_rows(db[s][t], {}, ign, s, t) = nothing
                /\ upsert_rows(db[s][t], {},
                       get_updatable_column_names(s, t), s, t) = nothing
                /\ delete_rows_by_pks(db[s][t], <<>>) = nothing)
    /\ [][\A r \in Runners, t \in Tables :
            LET tk == task[r][t]
                keys == IF tk.pc = "insert" THEN Head(tk.batches)
                        ELSE tk.changed_pks
            IN  (/\ tk.pc \in {"insert", "upsert"}
                 /\ task'[r][t] # tk
                 /\ fetch_rows_by_pks(db[Src(r)][t], keys) = {})
                    => /\ oplog' = oplog
                       /\ db' = db
                       /\ binlog' = binlog
                       /\ ~task'[r][t].raised
                       /\ task'[r][t].pc # "failed"
        ]_vars

\* a call that was not a dry run has returned: the task of "orders" had
\* planned an insert, the row was deleted on the source before the batch was
\* fetched, and no insert statement was sent
C32_Witness ==
    /\ pc["A"] = "returned"
    /\ LastResult("A").how = "completed"
    /\ ~options.dry_run
    /\ Finished("A", "orders")
    /\ task["A"]["orders"].to_insert # <<>>
    /\ "insert" \notin OpsOf("A", "orders")
    /\ ext["A"] = 1

(***************************************************************************)
(* Properties of the source side of a call, checked under SpecGate, where  *)
(* no other writer is at work.                                             *)
(***************************************************************************)
\* C33: sync_mysql never modifies the source database: whatever the call
\* does, the rows of the source and its foreign-key setting are those it
\* began with, and every change of a row or of the setting is one of the
\* destination.
C33_SourceNeverModified ==
    \A r \in Runners :
        pc[r] # "idle" =>
            /\ db[Src(r)] = init.db[Src(r)]
            /\ fk[Src(r)]
            /\ binlog[Src(r)] = [on |-> FALSE, pos |-> 0]
            /\ \A s \in Sides :
                  (db[s] # init.db[s] \/ ~fk[s]) => s = Dst(r)

\* a completed call has inserted into, updated and deleted from the
\* destination, and the source holds the rows it began with
C33_Witness ==
    /\ pc["A"] = "returned"
    /\ LastResult("A").how = "completed"
    /\ {"insert", "upsert", "delete"} \subseteq OpsOf("A", "orders")
    /\ db["B"]["orders"] # init.db["B"]["orders"]
    /\ db["B"]["orders"] = db["A"]["orders"]
    /\ db["A"] = init.db["A"]

(***************************************************************************)
(* SpecLoop: the two sync_side loops from their first start, when no state *)
(* file exists yet.  Only A has other writers; "orders" is empty on A and  *)
(* empty or not on B.  The schemas are: "orders" on both sides; a table    *)
(* "users" that only A has; a table "notes" without primary key whose rows *)
(* differ; no table in common.  A server can be unreachable when           *)
(* sync_mysql reflects its schema, at most MaxFaults times.                *)
(***************************************************************************)
\* lines 536-542: create_engine / load_metadata raise when a server cannot
\* be reached
MysqlRaise(r) ==
    /\ pc[r] = "reflect"
    /\ fault < MaxFaults
    /\ fault' = fault + 1
    /\ pc' = [pc EXCEPT ![r] = "raised"]
    /\ run' = Ended(r, "raised")
    /\ UNCHANGED <<db, schema, binlog, stateFile, fk, options, task, oplog,
                   lock, ext, init, env, gui, otherDir>>

InitLoop ==
    /\ env = DefaultEnv
    /\ \E po \in {<<>>, (1 :> RowA_BC)},
          sch \in {[s \in Sides |-> {"orders"}],
                   [s \in Sides |-> IF s = "A" THEN {"orders", "users"}
                                    ELSE {"orders"}],
                   [s \in Sides |-> {"notes", "orders"}],
                   [s \in Sides |-> IF s = "A" THEN {"orders"} ELSE {"notes"}]} :
          /\ po # <<>> => sch = [s \in Sides |-> {"orders"}]
          /\ InitWith(Masked([s \in Sides |->
                                 IF s = "A"
                                 THEN [orders |-> <<>>,
                                       notes |-> (1 :> RowA_Null),
                                       users |-> (1 :> RowA_Null)]
                                 ELSE [orders |-> po, notes |-> <<>>,
                                       users |-> <<>>]], sch),
                      sch,
                      [s \in Sides |-> [on |-> FALSE, pos |-> 0]],
                      [s \in Sides |-> EmptySig],
                      ControllerOptions)
    /\ pc = [r \in Runners |-> "tick"]
    /\ task = [r \in Runners |-> [t \in Tables |-> IdleTask]]

NextLoop ==
    \/ \E r \in Runners : sync_side(r)
    \/ \E r \in Runners : MysqlRaise(r)
    \/ \E k \in 1..MaxRunKey : ExtWrite("A", "orders", k)

SpecLoop == InitLoop /\ [][NextLoop]_vars

(***************************************************************************)
(* Properties of the two loops from their first start, checked under       *)
(* SpecLoop.                                                               *)
(***************************************************************************)
\* C34: the gate is always released when a direction leaves its apply
\* phase, whether the apply returned, raised an error or raised a fatal
\* exit: the lock is held exactly while its holder is between the call of
\* sync_mysql and the end of the with block, and the step by which a
\* direction leaves that phase frees the lock, so that a loop that has gone
\* back to its tick, waits or has ended never holds the lock the other
\* loop waits on.
C34_GateAlwaysReleased ==
    /\ [](/\ lock \in Runners \cup {"free"}
          /\ \A r \in Runners : lock = r <=> InApply(r))
    /\ [][\A r \in Runners :
            (InApply(r) /\ pc'[r] \in {"tick", "wait", "dead"})
                => lock' = "free"
        ]_vars

\* the call of direction A ended by an error, the loop of A went on to its
\* next tick, and direction B, which had been waiting, holds the lock
C34_Witness ==
    /\ pc["A"] = "tick"
    /\ run["A"].results # <<>>
    /\ LastResult("A").how = "raised"
    /\ lock = "B"
    /\ InApply("B")

\* C35: whenever a direction starts an apply, its change decision is not
\* stale: in the step that acquires the lock the content signature of the
\* source still differs from the persisted signature of the source.
C35_ApplyDecisionNotStale ==
    [][\A r \in Runners :
          (pc[r] = "wait" /\ pc'[r] = "validate")
              => has_database_changes(Src(r), "content").changed
      ]_vars

\* C36: a row inserted on A by another writer, while B has no other writer,
\* is never deleted from A by the controller: a key that B did not hold at
\* the start can be in A only by such an insert, and it leaves A only by a
\* step of the other writer.
C36_InsertedRowSurvives ==
    [][\A k \in (1..MaxRunKey) \ DOMAIN init.db["B"]["orders"] :
          (k \in DOMAIN db["A"]["orders"] /\ k \notin DOMAIN db'["A"]["orders"])
              => ext'["A"] # ext["A"]
      ]_vars

\* C38: bidirectional quiescence.  Once both loops are back at the top of
\* their loop with the lock free and the keyed table that both databases
\* have holds the same rows on both sides, a direction whose last apply ran
\* to the end finds no change on its source, so that no further apply is
\* started without another external write; also when one database has a
\* table the other one lacks or a table without primary key.
C38_QuietOnceConverged ==
    \A r \in Runners :
        (/\ pc["A"] = "tick" /\ pc["B"] = "tick" /\ lock = "free"
         /\ AppliedSuccessfully(r)
         /\ db["A"]["orders"] = db["B"]["orders"])
            => ~has_database_changes(Src(r), "content").changed

(***************************************************************************)
(* SpecGui: the start/stop button of examples/advanced_gui.py and the      *)
(* worker threads it starts.  A thread is at "loop" (the condition of its  *)
(* while loop), "call" (inside its sync_mysql calls), "sleep"              *)
(* (time.sleep(interval)) or "ended".  A sync_mysql call of a worker ends  *)
(* as under SpecRun: it returns, raises an Exception or raises SystemExit; *)
(* the rows it writes are those of SpecRun and SpecLoop and are left out   *)
(* here.  At most MaxWorkers threads are started.                          *)
(***************************************************************************)
MaxWorkers == 3

\* lines 692-696: the three flags are cleared; no thread is joined
stop_sync(g) ==
    [g EXCEPT !.sync_running = FALSE, !.auto_sync_running = FALSE,
              !.bi_directional_running = FALSE]

\* lines 505-524: the button stops whatever is running, or starts the
\* selected mode when both URLs are given.  Lines 526-566, 568-611, 613-690:
\* the flag of the mode is set and a daemon thread is started; the one-time
\* worker has no loop
start_sync(urls_given, sync_mode) ==
    /\ IF \/ gui.sync_running \/ gui.auto_sync_running
          \/ gui.bi_directional_running
       THEN gui' = stop_sync(gui)
       ELSE IF ~urls_given THEN gui' = gui
       ELSE /\ Len(gui.threads) < MaxWorkers
            /\ gui' =
                 [gui EXCEPT
                     !.sync_running = @ \/ sync_mode = "one_time",
                     !.auto_sync_running = @ \/ sync_mode = "auto_sync",
                     !.bi_directional_running = @ \/ sync_mode = "bi_directional",
                     !.threads = Append(@, [mode |-> sync_mode,
                                            pc |-> IF sync_mode = "one_time"
                                                   THEN "call" ELSE "loop"])]
    /\ UNCHANGED <<db, schema, binlog, stateFile, fk, options, pc, task,
                   oplog, run, lock, ext, init, fault, env, otherDir>>

\* lines 534-563: sync_worker; however the call ends, finally clears
\* sync_running.  Lines 590 and 625: the loop condition reads the flag of
\* the mode.  Lines 591-606 and 626-685: the calls of one round; SystemExit
\* is not an Exception, so it ends the thread with the flag still set.
\* Lines 606, 681, 685: the sleep ends
WorkerStep(i) ==
    /\ i \in DOMAIN gui.threads
    /\ LET th == gui.threads[i]
           flag == IF th.mode = "auto_sync" THEN gui.auto_sync_running
                   ELSE gui.bi_directional_running
       IN  \/ /\ th.mode = "one_time" /\ th.pc = "call"
              /\ gui' = [gui EXCEPT !.threads[i].pc = "ended",
                                    !.sync_running = FALSE]
           \/ /\ th.mode # "one_time" /\ th.pc = "loop"
              /\ gui' = [gui EXCEPT !.threads[i].pc =
                            IF flag THEN "call" ELSE "ended"]
           \/ /\ th.mode # "one_time" /\ th.pc = "call"
              /\ \E how \in {"returned", "raised", "exit"} :
                    gui' = [gui EXCEPT !.threads[i].pc =
                               IF how = "exit" THEN "ended" ELSE "sleep"]
           \/ /\ th.mode # "one_time" /\ th.pc = "sleep"
              /\ gui' = [gui EXCEPT !.threads[i].pc = "loop"]
    /\ UNCHANGED <<db, schema, binlog, stateFile, fk, options, pc, task,
                   oplog, run, lock, ext, init, fault, env, otherDir>>

InitGui ==
    /\ env = DefaultEnv
    /\ InitWith([s \in Sides |-> [t \in Tables |-> <<>>]],
                [s \in Sides |-> {"orders"}],
                [s \in Sides |-> [on |-> FALSE, pos |-> 0]],
                [s \in Sides |-> EmptySig],
                ControllerOptions)
    /\ pc = [r \in Runners |-> "idle"]
    /\ task = [r \in Runners |-> [t \in Tables |-> IdleTask]]

NextGui ==
    \/ \E urls_given \in BOOLEAN,
          sync_mode \in {"one_time", "auto_sync", "bi_directional"} :
          start_sync(urls_given, sync_mode)
    \/ \E i \in 1..MaxWorkers : WorkerStep(i)

SpecGui == InitGui /\ [][NextGui]_vars

(***************************************************************************)
(* Properties of the GUI controller, checked under SpecGui.                *)
(***************************************************************************)
\* C39: at most one auto-sync or bidirectional worker loop is alive at any
\* time, for every sequence of start and stop requests; and a looping
\* worker after which another thread has been started (so that stop_sync
\* ran after its own start) leaves its loop at its next loop-condition
\* check.
C39_OneWorkerLoopAlive ==
    /\ [](Cardinality({i \in DOMAIN gui.threads :
                          /\ gui.threads[i].mode # "one_time"
                          /\ gui.threads[i].pc # "ended"}) <= 1)
    /\ [][\A i \in DOMAIN gui.threads :
             (/\ gui.threads[i].mode # "one_time"
              /\ gui.threads[i].pc = "loop"
              /\ i < Len(gui.threads)
              /\ gui'.threads[i].pc # "loop")
                 => gui'.threads[i].pc = "ended"
         ]_vars
=============================================================================
